---- MODULE Spec2Model ----
(***************************************************************************)
(* Model of the particle engine (src/src/simulation.js) and of its spatial *)
(* index (spatial-hash.js, kept in src/unnamed/part_000).                  *)
(*                                                                         *)
(* Numbers.  The engine computes in floating point; the model computes in  *)
(* fixed point.  A length (position, world size, radius, cell size) is an  *)
(* integer number of 1/PosUnit pixels, a velocity or a force is an integer *)
(* number of 1/VelUnit pixels per frame, a matrix entry is an integer      *)
(* number of tenths (the editor rounds to one decimal), and dt is an       *)
(* integer number of 1/60 s.  Products and quotients round toward zero,    *)
(* square roots round up.  Particle arrays are functions on 0..count-1, as *)
(* in the source.                                                          *)
(***************************************************************************)
EXTENDS Integers, Sequences, FiniteSets, TLC

\* ------------------------------------------------------------------------
\* constants.js
PARTICLE_RADIUS == 4
INTERACTION_RADIUS == 300
REPULSION_RADIUS == PARTICLE_RADIUS * 2
REPULSION_STRENGTH == <<1, 2>>       \* 0.5 as numerator, denominator
FRICTION == <<98, 100>>              \* 0.98
MAX_VELOCITY == 5
FORCE_SCALE == <<1, 1000>>           \* 0.001
CELL_SIZE == INTERACTION_RADIUS
DEFAULT_USE_BRUTE_FORCE == TRUE
MIN_TYPES == 2
MAX_TYPES == 8
MIN_INTERACTION_RADIUS == 20
MAX_INTERACTION_RADIUS == 1000
MATRIX_MIN == -5
MATRIX_MAX == 5

\* resolution of the fixed-point numbers
PosUnit == 10
VelUnit == 1000
MatrixUnit == 10

\* ------------------------------------------------------------------------
\* bounds of the model
MaxParticles == 2
MaxOps == 4

\* ------------------------------------------------------------------------
\* arithmetic
Abs(a) == IF a < 0 THEN -a ELSE a
Min(a, b) == IF a < b THEN a ELSE b
Max(a, b) == IF a > b THEN a ELSE b

\* a / b rounded toward zero, b > 0
TDiv(a, b) == IF a >= 0 THEN a \div b ELSE -((-a) \div b)

\* Math.ceil(a / b), a >= 0, b > 0
CeilDiv(a, b) == (a + b - 1) \div b

RECURSIVE SqrtSearch(_, _, _)
SqrtSearch(n, lo, hi) ==
  IF lo >= hi THEN lo
  ELSE LET mid == (lo + hi) \div 2
       IN IF mid * mid >= n THEN SqrtSearch(n, lo, mid)
                            ELSE SqrtSearch(n, mid + 1, hi)

\* Math.sqrt(n), rounded up
Sqrt(n) == SqrtSearch(n, 0, 46340)

\* Math.sqrt(a*a + b*b), rounded up; large operands are scaled first
Hypot(a, b) ==
  LET m == Max(Abs(a), Abs(b))
      k == (m \div 30000) + 1
      ca == CeilDiv(Abs(a), k)
      cb == CeilDiv(Abs(b), k)
  IN Sqrt(ca * ca + cb * cb) * k

\* lengths in position units
Px(px) == px * PosUnit
RADIUS == Px(PARTICLE_RADIUS)
REPULSION == Px(REPULSION_RADIUS)
SPEED_CAP == MAX_VELOCITY * VelUnit

\* ------------------------------------------------------------------------
\* SpatialHash (spatial-hash.js)

EmptyGrid(cols, rows) == [c \in 0..(cols * rows - 1) |-> <<>>]

\* constructor(cellSize, width, height)
SpatialHash(cellSize, w, h) ==
  LET cols == CeilDiv(w, cellSize)
      rows == CeilDiv(h, cellSize)
  IN [cellSize |-> cellSize, width |-> w, height |-> h,
      cols |-> cols, rows |-> rows, grid |-> EmptyGrid(cols, rows)]

\* resize(width, height)
HashResize(sh, w, h) ==
  LET cols == CeilDiv(w, sh.cellSize)
      rows == CeilDiv(h, sh.cellSize)
  IN [sh EXCEPT !.width = w, !.height = h, !.cols = cols, !.rows = rows,
                !.grid = EmptyGrid(cols, rows)]

\* clear() that leaves the cells as they are
HashClearNot(sh) == sh

\* clear()
HashClear(sh) == [sh EXCEPT !.grid = [c \in DOMAIN sh.grid |-> <<>>]]

\* getCellIndex(x, y)
GetCellIndex(sh, px, py) ==
  LET col == px \div sh.cellSize
      row == py \div sh.cellSize
      clampedCol == Max(0, Min(sh.cols - 1, col))
      clampedRow == Max(0, Min(sh.rows - 1, row))
  IN clampedRow * sh.cols + clampedCol

\* insert(particleIndex, x, y)
HashInsert(sh, particleIndex, px, py) ==
  LET cellIndex == GetCellIndex(sh, px, py)
  IN [sh EXCEPT !.grid[cellIndex] = Append(@, particleIndex)]

\* the 3x3 block of getNearby, in the order of its two loops
Offsets == << <<-1, -1>>, <<-1, 0>>, <<-1, 1>>,
              <<0, -1>>,  <<0, 0>>,  <<0, 1>>,
              <<1, -1>>,  <<1, 0>>,  <<1, 1>> >>

RECURSIVE NearbyFrom(_, _, _, _)
NearbyFrom(sh, col, row, k) ==
  IF k > Len(Offsets) THEN <<>>
  ELSE LET r == row + Offsets[k][1]
           c == col + Offsets[k][2]
           cell == IF c >= 0 /\ c < sh.cols /\ r >= 0 /\ r < sh.rows
                   THEN sh.grid[r * sh.cols + c]
                   ELSE <<>>
       IN cell \o NearbyFrom(sh, col, row, k + 1)

\* getNearby that tests the flat cell index only, not the column and the row
GetNearbyWrap(sh, px, py) ==
  LET col == px \div sh.cellSize
      row == py \div sh.cellSize
      Cell(k) ==
        LET idx == (row + Offsets[k][1]) * sh.cols + col + Offsets[k][2]
        IN IF idx \in DOMAIN sh.grid THEN sh.grid[idx] ELSE <<>>
  IN Cell(1) \o Cell(2) \o Cell(3) \o Cell(4) \o Cell(5) \o Cell(6)
       \o Cell(7) \o Cell(8) \o Cell(9)

\* getNearby(x, y)
GetNearby(sh, px, py) ==
  LET col == px \div sh.cellSize
      row == py \div sh.cellSize
  IN NearbyFrom(sh, col, row, 1)

\* ------------------------------------------------------------------------
\* ParticleSimulation (simulation.js): the fields of one engine instance

VARIABLES width, height, x, y, vx, vy, types, count, typeCount,
          interactionMatrix, spatialHash, fx, fy, useBruteForce,
          interactionRadius,
          ops,      \* number of engine calls made so far
          step,     \* what the last call did; within initialize and within
                    \* a frame of the game loop, how far it has come
          app,      \* ParticleApp and its UIController (main.js, ui.js)
          view      \* ZoomController and the renderer's zoom and pan

vars == <<width, height, x, y, vx, vy, types, count, typeCount,
          interactionMatrix, spatialHash, fx, fy, useBruteForce,
          interactionRadius, ops, step, app, view>>

\* the fields of one engine instance, with ops and step
engine == <<width, height, x, y, vx, vy, types, count, typeCount,
            interactionMatrix, spatialHash, fx, fy, useBruteForce,
            interactionRadius, ops, step>>

\* no application and no zoom controller constructed
NoApp == [event |-> [op |-> "none"]]
NoView == [event |-> [op |-> "none"]]

Particles == 0..(count - 1)

\* an array allocated one element too long
ZerosOneMore(n) == [i \in 0..n |-> 0]

\* new Float32Array(n) / new Uint8Array(n)
Zeros(n) == [i \in 0..(n - 1) |-> 0]

\* the fields the constructor sets, the spatial index apart
EngineFields(w, h) ==
  /\ width = w
  /\ height = h
  /\ x = <<>> /\ y = <<>> /\ vx = <<>> /\ vy = <<>> /\ types = <<>>
  /\ count = 0
  /\ typeCount = 0
  /\ interactionMatrix = <<>>
  /\ fx = <<>> /\ fy = <<>>
  /\ useBruteForce = DEFAULT_USE_BRUTE_FORCE
  /\ interactionRadius = Px(INTERACTION_RADIUS)
  /\ ops = 0
  /\ step = [op |-> "constructor"]

\* constructor(width, height)
Constructor(w, h) ==
  /\ EngineFields(w, h)
  /\ spatialHash = SpatialHash(Px(CELL_SIZE), w, h)

\* ---- placeParticlesNoOverlap ----
\* Math.random() is one of 0/RandDen .. (RandDen-1)/RandDen
RandDen == 4
Rand == 0..(RandDen - 1)

\* a sample drawn over the whole dimension, without the padding
RandomPosNoPadding(r, dim) == TDiv(r * dim, RandDen)

\* padding + Math.random() * (dimension - 2 * padding)
RandomPos(r, dim) == RADIUS + TDiv(r * (dim - 2 * RADIUS), RandDen)

\* the collision test of one sample (px, py) against the particles placed
\* so far, whose positions are xs, ys and which ph indexes
Collision(ph, xs, ys, px, py) ==
  LET minDist == RADIUS
      minDistSq == minDist * minDist
      nearby == GetNearby(ph, px, py)
  IN \E n \in 1..Len(nearby) :
       LET idx == nearby[n]
           dx == px - xs[idx]
           dy == py - ys[idx]
       IN dx * dx + dy * dy < minDistSq

\* The sampling loop.  A rejected sample changes nothing but the attempt
\* counter, so a run of the loop is given by its accepted samples: draws[1..k]
\* are the samples accepted by rejection sampling, in order, and k < Len(draws)
\* means the attempt cap was reached first; draws[k+1..] are then the fallback
\* samples.  Returns the positions, or "collision" when one of the first k
\* samples would have been rejected.
RECURSIVE PlaceLoop(_, _, _, _, _, _)
PlaceLoop(ph, xs, ys, placed, k, draws) ==
  IF placed >= Len(draws) THEN [ok |-> TRUE, x |-> xs, y |-> ys]
  ELSE LET px == RandomPos(draws[placed + 1][1], width)
           py == RandomPos(draws[placed + 1][2], height)
       IN IF placed < k
          THEN IF Collision(ph, xs, ys, px, py)
               THEN [ok |-> FALSE, x |-> xs, y |-> ys]
               ELSE PlaceLoop(HashInsert(ph, placed, px, py),
                              [xs EXCEPT ![placed] = px],
                              [ys EXCEPT ![placed] = py],
                              placed + 1, k, draws)
          ELSE PlaceLoop(ph, [xs EXCEPT ![placed] = px],
                         [ys EXCEPT ![placed] = py], placed + 1, k, draws)

\* the attempts a run with k accepted samples out of n needs are available:
\* every sample after the first can be rejected, the first one cannot
AttemptsAllow(n, k) ==
  LET maxAttempts == n * 100
  IN /\ k <= maxAttempts
     /\ (k < n => k >= 1)

\* every particle given the first type
TypeOfFirst(i, tc) == 0

\* types[i] = i % typeCount, stored in a Uint8Array
TypeOf(i, tc) == (i % tc) % 256

\* initialize(particleCount, typeCount, interactionMatrix)
Initialize(particleCount, tc, matrix, k, draws) ==
  LET minDist == RADIUS
      placementHash == SpatialHash(minDist, width, height)
      res == PlaceLoop(placementHash, Zeros(particleCount),
                       Zeros(particleCount), 0, k, draws)
  IN /\ ops < MaxOps
     /\ Len(draws) = particleCount
     /\ k \in 0..particleCount
     /\ AttemptsAllow(particleCount, k)
     /\ res.ok
     /\ count' = particleCount
     /\ typeCount' = tc
     /\ interactionMatrix' = matrix
     /\ x' = res.x
     /\ y' = res.y
     /\ types' = [i \in 0..(particleCount - 1) |-> TypeOf(i, tc)]
     /\ vx' = Zeros(particleCount)
     /\ vy' = Zeros(particleCount)
     /\ fx' = Zeros(particleCount)
     /\ fy' = Zeros(particleCount)
     /\ ops' = ops + 1
     /\ step' = [op |-> "initialize", placed |-> k]
     /\ UNCHANGED <<width, height, spatialHash, useBruteForce,
                    interactionRadius>>

\* ---- initialize, one loop iteration at a time ----
\* While placeParticlesNoOverlap runs, step holds its locals placed, attempts
\* and placementHash.
Placing == step.op = "placeParticlesNoOverlap"

\* initialize up to the head of the sampling loop
BeginInitialize(particleCount, tc, matrix) ==
  /\ ops < MaxOps
  /\ ~Placing
  /\ count' = particleCount
  /\ typeCount' = tc
  /\ interactionMatrix' = matrix
  /\ x' = Zeros(particleCount)
  /\ y' = Zeros(particleCount)
  /\ vx' = Zeros(particleCount)
  /\ vy' = Zeros(particleCount)
  /\ types' = Zeros(particleCount)
  /\ fx' = Zeros(particleCount)
  /\ fy' = Zeros(particleCount)
  /\ ops' = ops + 1
  /\ step' = [op |-> "placeParticlesNoOverlap", placed |-> 0, attempts |-> 0,
              placementHash |-> SpatialHash(RADIUS, width, height)]
  /\ UNCHANGED <<width, height, spatialHash, useBruteForce,
                 interactionRadius>>

\* while (placed < this.count && attempts < maxAttempts)
LoopRuns ==
  LET maxAttempts == count * 100
  IN step.placed < count /\ step.attempts < maxAttempts

\* one iteration of the sampling loop with the sample r
PlaceAttempt(r) ==
  LET px == RandomPos(r[1], width)
      py == RandomPos(r[2], height)
      placed == step.placed
  IN /\ Placing
     /\ LoopRuns
     /\ IF Collision(step.placementHash, x, y, px, py)
        THEN /\ step' = [step EXCEPT !.attempts = @ + 1]
             /\ UNCHANGED <<x, y, types>>
        ELSE /\ x' = [x EXCEPT ![placed] = px]
             /\ y' = [y EXCEPT ![placed] = py]
             /\ types' = [types EXCEPT ![placed] = TypeOf(placed, typeCount)]
             /\ step' = [step EXCEPT
                           !.attempts = @ + 1,
                           !.placed = @ + 1,
                           !.placementHash = HashInsert(@, placed, px, py)]
     /\ UNCHANGED <<width, height, vx, vy, count, typeCount,
                    interactionMatrix, spatialHash, fx, fy, useBruteForce,
                    interactionRadius, ops>>

\* the rest of initialize once the loop has ended: the fallback placement of
\* the particles from step.placed on, with the samples draws[i], and the
\* velocities set to zero
FinishInitialize(draws) ==
  /\ Placing
  /\ ~LoopRuns
  /\ x' = [i \in Particles |->
             IF i >= step.placed THEN RandomPos(draws[i][1], width) ELSE x[i]]
  /\ y' = [i \in Particles |->
             IF i >= step.placed THEN RandomPos(draws[i][2], height) ELSE y[i]]
  /\ types' = [i \in Particles |->
                 IF i >= step.placed THEN TypeOf(i, typeCount) ELSE types[i]]
  /\ vx' = Zeros(count)
  /\ vy' = Zeros(count)
  /\ step' = [op |-> "initialize", placed |-> step.placed,
              attempts |-> step.attempts]
  /\ UNCHANGED <<width, height, count, typeCount, interactionMatrix,
                 spatialHash, fx, fy, useBruteForce, interactionRadius, ops>>

\* setInteractionMatrix(matrix)
SetInteractionMatrix(matrix) ==
  /\ ops < MaxOps
  /\ interactionMatrix' = matrix
  /\ ops' = ops + 1
  /\ step' = [op |-> "setInteractionMatrix"]
  /\ UNCHANGED <<width, height, x, y, vx, vy, types, count, typeCount,
                 spatialHash, fx, fy, useBruteForce, interactionRadius>>

\* setBruteForce that also brings the particles to rest
SetBruteForceResets(b) ==
  /\ ops < MaxOps
  /\ useBruteForce' = b
  /\ vx' = Zeros(count)
  /\ vy' = Zeros(count)
  /\ ops' = ops + 1
  /\ step' = [op |-> "setBruteForce"]
  /\ UNCHANGED <<width, height, x, y, types, count, typeCount,
                 interactionMatrix, spatialHash, fx, fy, interactionRadius>>

\* setBruteForce(useBruteForce)
SetBruteForce(b) ==
  /\ ops < MaxOps
  /\ useBruteForce' = b
  /\ ops' = ops + 1
  /\ step' = [op |-> "setBruteForce"]
  /\ UNCHANGED <<width, height, x, y, vx, vy, types, count, typeCount,
                 interactionMatrix, spatialHash, fx, fy, interactionRadius>>

\* the spatial index after setInteractionRadius(radius)
HashAfterSetRadius(radius) ==
  IF ~useBruteForce THEN SpatialHash(radius, width, height)
  ELSE spatialHash

\* setInteractionRadius(radius)
SetInteractionRadius(radius) ==
  /\ ops < MaxOps
  /\ interactionRadius' = radius
  /\ spatialHash' = HashAfterSetRadius(radius)
  /\ ops' = ops + 1
  /\ step' = [op |-> "setInteractionRadius"]
  /\ UNCHANGED <<width, height, x, y, vx, vy, types, count, typeCount,
                 interactionMatrix, fx, fy, useBruteForce>>

\* addParticleType(newTypeCount, newMatrix): the engine method main.js calls;
\* it replaces the type count and the matrix and touches no particle
AddParticleType(newTypeCount, newMatrix) ==
  /\ ops < MaxOps
  /\ typeCount' = newTypeCount
  /\ interactionMatrix' = newMatrix
  /\ ops' = ops + 1
  /\ step' = [op |-> "addParticleType"]
  /\ UNCHANGED <<width, height, x, y, vx, vy, types, count, spatialHash,
                 fx, fy, useBruteForce, interactionRadius>>

\* removeParticleType without the shift of the indices above the removed one
RemapNoShift(currentType, removedIndex, rnd) ==
  IF currentType = removedIndex THEN rnd % 256
  ELSE currentType

\* removeParticleType that shifts but does not reassign the removed type
RemapKeepRemoved(currentType, removedIndex, rnd) ==
  IF currentType > removedIndex THEN currentType - 1
  ELSE currentType

\* the remapping of one particle's type in removeParticleType; rnd is
\* Math.floor(Math.random() * newTypeCount)
Remap(currentType, removedIndex, rnd) ==
  IF currentType = removedIndex THEN rnd % 256
  ELSE IF currentType > removedIndex THEN currentType - 1
  ELSE currentType

\* removeParticleType(removedIndex, newTypeCount, newMatrix); rnds[i] is the
\* random type drawn if particle i is reassigned
RemoveParticleType(removedIndex, newTypeCount, newMatrix, rnds) ==
  /\ ops < MaxOps
  /\ typeCount' = newTypeCount
  /\ interactionMatrix' = newMatrix
  /\ types' = [i \in Particles |-> Remap(types[i], removedIndex, rnds[i])]
  /\ ops' = ops + 1
  /\ step' = [op |-> "removeParticleType", removedIndex |-> removedIndex,
              types |-> types, typeCount |-> typeCount]
  /\ UNCHANGED <<width, height, x, y, vx, vy, count, spatialHash,
                 fx, fy, useBruteForce, interactionRadius>>

\* Math.max(PARTICLE_RADIUS, Math.min(dimension - PARTICLE_RADIUS, p))
ClampPos(p, dim) == Max(RADIUS, Min(dim - RADIUS, p))

\* resize that clamps the old position without scaling it
RescaleNot(p, newDim, oldDim) == p

\* p * (newDim / oldDim)
Rescale(p, newDim, oldDim) == TDiv(p * newDim, oldDim)

\* resize(width, height)
Resize(w, h) ==
  /\ ops < MaxOps
  /\ width' = w
  /\ height' = h
  /\ spatialHash' = HashResize(spatialHash, w, h)
  /\ x' = [i \in Particles |-> ClampPos(Rescale(x[i], w, width), w)]
  /\ y' = [i \in Particles |-> ClampPos(Rescale(y[i], h, height), h)]
  /\ ops' = ops + 1
  /\ step' = [op |-> "resize"]
  /\ UNCHANGED <<vx, vy, types, count, typeCount, interactionMatrix,
                 fx, fy, useBruteForce, interactionRadius>>

\* ---- update ----
\* the guard "distSq < 0.0001" (square pixels) in position units
SINGULARITY == <<1, 10000>>
MinDistSq == CeilDiv(SINGULARITY[1] * PosUnit * PosUnit, SINGULARITY[2])

DistSq(i, j) ==
  LET dx == x[j] - x[i]
      dy == y[j] - y[i]
  IN dx * dx + dy * dy

\* interactionMatrix[typeI][typeJ] + interactionMatrix[typeJ][typeI]; the
\* attraction is half of it
AttractionSum(i, j) ==
  interactionMatrix[types[i]][types[j]] + interactionMatrix[types[j]][types[i]]

\* the close-range term at full strength whatever the distance
RepulsionTermAlways(i, j) ==
  TDiv(REPULSION_STRENGTH[1] * VelUnit, REPULSION_STRENGTH[2])

\* the close-range term REPULSION_STRENGTH * overlap * overlap
RepulsionTerm(i, j) ==
  LET dist == Sqrt(DistSq(i, j))
      overlap == REPULSION - dist       \* times REPULSION
  IN IF DistSq(i, j) < REPULSION * REPULSION
     THEN TDiv(REPULSION_STRENGTH[1] * VelUnit * overlap * overlap,
               REPULSION_STRENGTH[2] * REPULSION * REPULSION)
     ELSE 0

\* forceMagnitude of calculateForces: linear falloff inside the radius
MagnitudeHash(i, j) ==
  LET dist == Sqrt(DistSq(i, j))
      falloffNum == Max(0, interactionRadius - dist)
      falloffDen == interactionRadius - REPULSION
  IN TDiv(AttractionSum(i, j) * FORCE_SCALE[1] * VelUnit * falloffNum,
          2 * MatrixUnit * FORCE_SCALE[2] * falloffDen)
     - RepulsionTerm(i, j)

\* forceMagnitude of calculateForcesBruteForce: (REPULSION_RADIUS / dist)^2
MagnitudeBrute(i, j) ==
  TDiv(TDiv(AttractionSum(i, j) * FORCE_SCALE[1] * VelUnit
              * REPULSION * REPULSION,
            2 * MatrixUnit * FORCE_SCALE[2]),
       DistSq(i, j))
  - RepulsionTerm(i, j)

\* the vector (fx, fy) = forceMagnitude * (nx, ny), (nx, ny) from i to j
ForceVector(i, j, magnitude) ==
  LET dist == Sqrt(DistSq(i, j))
  IN <<TDiv(magnitude * (x[j] - x[i]), dist),
       TDiv(magnitude * (y[j] - y[i]), dist)>>

\* "Apply force" with the two signs exchanged
ApplyForceReversed(f, i, j, v) ==
  [fx |-> [f.fx EXCEPT ![i] = @ - v[1], ![j] = @ + v[1]],
   fy |-> [f.fy EXCEPT ![i] = @ - v[2], ![j] = @ + v[2]]]

\* "Apply force" that forgets the reaction on particle j
ApplyForceOneSided(f, i, j, v) ==
  [fx |-> [f.fx EXCEPT ![i] = @ + v[1]],
   fy |-> [f.fy EXCEPT ![i] = @ + v[2]]]

\* "Apply force": this.fx[i] += fx; this.fx[j] -= fx (and fy alike)
ApplyForce(f, i, j, v) ==
  [fx |-> [f.fx EXCEPT ![i] = @ + v[1], ![j] = @ - v[1]],
   fy |-> [f.fy EXCEPT ![i] = @ + v[2], ![j] = @ - v[2]]]

\* the spatial index after clear() and the insert loop of update
RECURSIVE InsertAll(_, _)
InsertAll(sh, i) ==
  IF i >= count THEN sh
  ELSE InsertAll(HashInsert(sh, i, x[i], y[i]), i + 1)

RebuiltHash == InsertAll(HashClear(spatialHash), 0)

\* the pairs (i, j) the inner loop of calculateForces does not skip
PairsOfHash(sh, i) ==
  LET nearby == GetNearby(sh, x[i], y[i])
      kept == SelectSeq(nearby, LAMBDA j :
                /\ ~(j <= i)
                /\ ~(\/ DistSq(i, j) > interactionRadius * interactionRadius
                     \/ DistSq(i, j) < MinDistSq))
  IN [n \in 1..Len(kept) |-> <<i, kept[n]>>]

RECURSIVE PairsHashFrom(_, _)
PairsHashFrom(sh, i) ==
  IF i >= count THEN <<>>
  ELSE PairsOfHash(sh, i) \o PairsHashFrom(sh, i + 1)

\* the pairs the inner loop of calculateForcesBruteForce does not skip
RECURSIVE PairsBruteFrom(_, _)
PairsBruteFrom(i, j) ==
  IF i >= count THEN <<>>
  ELSE IF j >= count THEN PairsBruteFrom(i + 1, i + 2)
  ELSE (IF DistSq(i, j) < MinDistSq THEN <<>> ELSE << <<i, j>> >>)
       \o PairsBruteFrom(i, j + 1)

RECURSIVE Accumulate(_, _, _, _)
Accumulate(f, pairs, k, brute) ==
  IF k > Len(pairs) THEN f
  ELSE LET i == pairs[k][1]
           j == pairs[k][2]
           magnitude == IF brute THEN MagnitudeBrute(i, j)
                        ELSE MagnitudeHash(i, j)
       IN Accumulate(ApplyForce(f, i, j, ForceVector(i, j, magnitude)),
                     pairs, k + 1, brute)

\* what "Apply force" adds for the k-th processed pair: di to particle i's
\* accumulator and dj to particle j's; v is forceMagnitude * (nx, ny)
Applied(pairs, k, brute) ==
  LET i == pairs[k][1]
      j == pairs[k][2]
      magnitude == IF brute THEN MagnitudeBrute(i, j) ELSE MagnitudeHash(i, j)
      v == ForceVector(i, j, magnitude)
      r == ApplyForce([fx |-> Zeros(count), fy |-> Zeros(count)], i, j, v)
  IN [i |-> i, j |-> j, v |-> v, di |-> <<r.fx[i], r.fy[i]>>,
      dj |-> <<r.fx[j], r.fy[j]>>]

\* the pairs processed by the force phase of update, in order
ProcessedPairs ==
  IF useBruteForce THEN PairsBruteFrom(0, 1)
  ELSE PairsHashFrom(RebuiltHash, 0)

\* fx, fy after fill(0) and calculateForces / calculateForcesBruteForce
CalculateForces ==
  Accumulate([fx |-> Zeros(count), fy |-> Zeros(count)],
             ProcessedPairs, 1, useBruteForce)

\* Math.min(dt, 1 / 30), dt in sixtieths of a second
\* update integrating with the frame time as it came
NormalizedDtUnclamped(dt) == dt

\* Math.min(dt, 1 / 30), in sixtieths of a second
NormalizedDt(dt) == Min(dt, 2)

\* integrate without the clamp of the speed to MAX_VELOCITY
IntegrateOneNoCap(px, py, pvx, pvy, pfx, pfy, dtScale) ==
  LET ax == pvx + pfx * dtScale
      ay == pvy + pfy * dtScale
      bx == TDiv(ax * FRICTION[1], FRICTION[2])
      by == TDiv(ay * FRICTION[1], FRICTION[2])
  IN [x |-> px + TDiv(bx * dtScale * PosUnit, VelUnit),
      y |-> py + TDiv(by * dtScale * PosUnit, VelUnit),
      vx |-> bx, vy |-> by]

\* one particle in integrate(dt): [x, y, vx, vy] after the step
IntegrateOne(px, py, pvx, pvy, pfx, pfy, dtScale) ==
  LET ax == pvx + pfx * dtScale
      ay == pvy + pfy * dtScale
      bx == TDiv(ax * FRICTION[1], FRICTION[2])
      by == TDiv(ay * FRICTION[1], FRICTION[2])
      speed == Hypot(bx, by)
      cx == IF speed > SPEED_CAP THEN TDiv(bx * SPEED_CAP, speed) ELSE bx
      cy == IF speed > SPEED_CAP THEN TDiv(by * SPEED_CAP, speed) ELSE by
  IN [x |-> px + TDiv(cx * dtScale * PosUnit, VelUnit),
      y |-> py + TDiv(cy * dtScale * PosUnit, VelUnit),
      vx |-> cx, vy |-> cy]

DAMPING == <<8, 10>>

\* handleBoundaries reflecting the velocity without clamping the position
BounceNoClamp(p, v, dim) ==
  IF p < RADIUS
  THEN <<p, TDiv(Abs(v) * DAMPING[1], DAMPING[2])>>
  ELSE IF p > dim - RADIUS
  THEN <<p, -TDiv(Abs(v) * DAMPING[1], DAMPING[2])>>
  ELSE <<p, v>>

\* handleBoundaries clamping the position without reflecting the velocity
BounceKeepVelocity(p, v, dim) ==
  IF p < RADIUS THEN <<RADIUS, v>>
  ELSE IF p > dim - RADIUS THEN <<dim - RADIUS, v>>
  ELSE <<p, v>>

\* one axis of one particle in handleBoundaries: <<position, velocity>>
Bounce(p, v, dim) ==
  IF p < RADIUS
  THEN <<RADIUS, TDiv(Abs(v) * DAMPING[1], DAMPING[2])>>
  ELSE IF p > dim - RADIUS
  THEN <<dim - RADIUS, -TDiv(Abs(v) * DAMPING[1], DAMPING[2])>>
  ELSE <<p, v>>

\* update(dt)
Update(dt) ==
  /\ ops < MaxOps
  /\ ops' = ops + 1
  /\ IF count = 0
     THEN /\ step' = [op |-> "update", ran |-> FALSE]
          /\ UNCHANGED <<width, height, x, y, vx, vy, types, count,
                         typeCount, interactionMatrix, spatialHash, fx, fy,
                         useBruteForce, interactionRadius>>
     ELSE \E normalizedDt \in {NormalizedDt(dt)}, f \in {CalculateForces},
             pairs \in {ProcessedPairs} :
          \E moved \in {[i \in Particles |->
                          IntegrateOne(x[i], y[i], vx[i], vy[i],
                                       f.fx[i], f.fy[i], normalizedDt)]} :
          \E bx \in {[i \in Particles |->
                       Bounce(moved[i].x, moved[i].vx, width)]},
             by \in {[i \in Particles |->
                       Bounce(moved[i].y, moved[i].vy, height)]} :
             /\ fx' = f.fx
             /\ fy' = f.fy
             /\ spatialHash' = IF useBruteForce THEN spatialHash
                               ELSE RebuiltHash
             /\ x' = [i \in Particles |-> bx[i][1]]
             /\ vx' = [i \in Particles |-> bx[i][2]]
             /\ y' = [i \in Particles |-> by[i][1]]
             /\ vy' = [i \in Particles |-> by[i][2]]
             /\ step' = [op |-> "update", ran |-> TRUE, dt |-> dt,
                         dtScale |-> normalizedDt,
                         pairs |-> pairs,
                         applied |-> [k \in 1..Len(pairs) |->
                                        Applied(pairs, k, useBruteForce)],
                         x |-> x, y |-> y, vx |-> vx, vy |-> vy,
                         moved |-> moved]
             /\ UNCHANGED <<width, height, types, count, typeCount,
                            interactionMatrix, useBruteForce,
                            interactionRadius>>

\* ------------------------------------------------------------------------
\* the callers' inputs

\* world sizes (canvas.clientWidth, canvas.clientHeight), in pixels
Worlds == {<<24, 12>>, <<900, 12>>, <<4, 12>>}

\* outcomes of the two Math.random() calls of one sample
Draws == {<<0, 0>>, <<1, 1>>, <<3, 2>>, <<3, 3>>}

\* interaction matrices, entries in tenths within [MATRIX_MIN, MATRIX_MAX]
ZeroMatrix(tc) == [a \in 0..(tc - 1) |-> [b \in 0..(tc - 1) |-> 0]]
AttractMatrix(tc) ==
  [a \in 0..(tc - 1) |-> [b \in 0..(tc - 1) |->
     IF a = b THEN -20 ELSE IF a < b THEN 50 ELSE 10]]
RepelMatrix(tc) ==
  [a \in 0..(tc - 1) |-> [b \in 0..(tc - 1) |->
     IF a = b THEN 30 ELSE IF a < b THEN -50 ELSE 20]]
Matrices(tc) == {ZeroMatrix(tc), AttractMatrix(tc), RepelMatrix(tc)}

\* interaction radii offered by the slider
Radii == {Px(MIN_INTERACTION_RADIUS), Px(MAX_INTERACTION_RADIUS)}

\* frame times in sixtieths of a second
Dts == {0, 1, 5}

Init ==
  /\ \E w \in Worlds : Constructor(Px(w[1]), Px(w[2]))
  /\ app = NoApp
  /\ view = NoView

\* the first initialize of an engine instance
DoInitialize ==
  /\ UNCHANGED <<app, view>>
  /\ count = 0
  /\ \E m \in Matrices(MIN_TYPES), k \in 0..MaxParticles,
        d \in [1..MaxParticles -> Draws] :
       Initialize(MaxParticles, MIN_TYPES, m, k, d)

\* initialize called again on the same instance
DoReinitialize ==
  /\ UNCHANGED <<app, view>>
  /\ count > 0
  /\ \E n \in 1..MaxParticles :
       Initialize(n, typeCount, interactionMatrix, 1, [i \in 1..n |-> <<3, 2>>])

DoSetBruteForce ==
  /\ UNCHANGED <<app, view>>
  /\ count > 0
  /\ \E b \in BOOLEAN : SetBruteForce(b)

DoSetInteractionRadius ==
  /\ UNCHANGED <<app, view>>
  /\ count > 0
  /\ \E r \in Radii : SetInteractionRadius(r)

DoResize ==
  /\ UNCHANGED <<app, view>>
  /\ \E w \in Worlds : Resize(Px(w[1]), Px(w[2]))

DoUpdate ==
  /\ UNCHANGED <<app, view>>
  /\ \E dt \in Dts : Update(dt)

NextPhysics ==
  \/ DoInitialize
  \/ DoReinitialize
  \/ DoSetBruteForce
  \/ DoSetInteractionRadius
  \/ DoResize
  \/ DoUpdate

SpecPhysics == Init /\ [][NextPhysics]_vars

\* ---- the type operations ----
TypeParticles == MaxParticles + 2
InitialTypeCounts == {2, 3, 4}

DoInitializeTyped ==
  /\ UNCHANGED <<app, view>>
  /\ count = 0
  /\ \E tc \in InitialTypeCounts,
        d \in [1..TypeParticles -> {<<1, 1>>, <<3, 2>>}] :
       Initialize(TypeParticles, tc, AttractMatrix(tc), 1, d)

DoSetInteractionMatrix ==
  /\ UNCHANGED <<app, view>>
  /\ count > 0
  /\ \E m \in Matrices(typeCount) : SetInteractionMatrix(m)

\* adding a type the way handleTypeCountChange does: a fresh initialize
DoAddParticleTypeReinitializes ==
  /\ UNCHANGED <<app, view>>
  /\ count > 0
  /\ typeCount < MAX_TYPES
  /\ Initialize(count, typeCount + 1, AttractMatrix(typeCount + 1), 1,
                [i \in 1..count |-> <<1, 1>>])

\* UIController.addParticleType / handleTypeAdded: one more type, up to 8
DoAddParticleType ==
  /\ UNCHANGED <<app, view>>
  /\ count > 0
  /\ typeCount < MAX_TYPES
  /\ AddParticleType(typeCount + 1, AttractMatrix(typeCount + 1))

\* UIController.removeParticleType / handleTypeRemoved: one type less, down
\* to 2, the removed index within range
DoRemoveParticleType ==
  /\ UNCHANGED <<app, view>>
  /\ count > 0
  /\ typeCount > MIN_TYPES
  /\ \E removedIndex \in 0..(typeCount - 1),
        rnds \in [Particles -> 0..(typeCount - 2)] :
       \* a particle that is not reassigned draws no random number
       /\ \A i \in Particles : types[i] # removedIndex => rnds[i] = 0
       /\ RemoveParticleType(removedIndex, typeCount - 1,
                             AttractMatrix(typeCount - 1), rnds)

NextTypes ==
  \/ DoInitializeTyped
  \/ DoSetInteractionMatrix
  \/ DoAddParticleType
  \/ DoRemoveParticleType
  \/ DoUpdate

SpecTypes == Init /\ [][NextTypes]_vars

\* ---- the configuration setters at runtime ----
DoInitializeMoving ==
  /\ UNCHANGED <<app, view>>
  /\ count = 0
  /\ \E d \in [1..MaxParticles -> {<<1, 1>>, <<3, 2>>}] :
       Initialize(MaxParticles, MIN_TYPES + 1, AttractMatrix(MIN_TYPES + 1),
                  1, d)

NextConfig ==
  \/ DoInitializeMoving
  \/ DoSetInteractionMatrix
  \/ DoSetInteractionRadius
  \/ DoSetBruteForce
  \/ DoRemoveParticleType
  \/ DoUpdate

SpecConfig == Init /\ [][NextConfig]_vars

\* ---- initialize step by step ----
DoBeginInitialize ==
  /\ UNCHANGED <<app, view>>
  /\ count = 0
  /\ \E tc \in {MIN_TYPES, MIN_TYPES + 1} :
       BeginInitialize(MaxParticles, tc, ZeroMatrix(tc))

DoPlaceAttempt ==
  /\ UNCHANGED <<app, view>>
  /\ \E r \in Draws : PlaceAttempt(r)

DoFinishInitialize ==
  /\ UNCHANGED <<app, view>>
  /\ \E d \in [Particles -> Draws] :
       \* a particle placed by the loop draws no fallback sample
       /\ \A i \in Particles : i < step.placed => d[i] = <<0, 0>>
       /\ FinishInitialize(d)

NextPlace ==
  \/ DoBeginInitialize
  \/ DoPlaceAttempt
  \/ DoFinishInitialize

SpecPlace == Init /\ [][NextPlace]_vars /\ WF_vars(NextPlace)

\* ------------------------------------------------------------------------
\* Settings (settings.js).  A JavaScript value is a record [t, v]: t is its
\* typeof/Array.isArray class, v its payload; numbers are kept in tenths.
DEFAULT_PARTICLE_COUNT == 100
DEFAULT_TYPE_COUNT == 3
MIN_PARTICLES == 10
MAX_PARTICLES == 2000

Num(n) == [t |-> "number", v |-> n]
Str == [t |-> "string", v |-> 0]
NotArray == [t |-> "string", v |-> <<>>]
Arr(seq) == [t |-> "array", v |-> seq]

\* Math.round left out
RoundNot(n) == n

\* Math.round of a number in tenths, as a number in tenths
Round(n) == ((n + 5) \div 10) * 10

\* Math.round((MATRIX_MIN + Math.random() * (MATRIX_MAX - MATRIX_MIN)) * 10) / 10
RandomCell(r) ==
  MATRIX_MIN * MatrixUnit
    + TDiv(r * (MATRIX_MAX - MATRIX_MIN) * MatrixUnit, RandDen)

\* generateRandomMatrix(size); every Math.random() of one call returns r
GenerateRandomMatrix(size, r) ==
  [i \in 1..size |-> [j \in 1..size |-> RandomCell(r)]]

\* getDefaultSettings()
GetDefaultSettings(r) ==
  [particleCount |-> DEFAULT_PARTICLE_COUNT * 10,
   typeCount |-> DEFAULT_TYPE_COUNT * 10,
   interactionMatrix |-> GenerateRandomMatrix(DEFAULT_TYPE_COUNT, r),
   bgColor |-> "#000000",
   colorScheme |-> "neon"]

\* Math.max(lo, Math.min(hi, Math.round(n))), in tenths
ClampRound(n, lo, hi) == Max(lo * 10, Min(hi * 10, Round(n)))

\* the interactionMatrix of validateSettings for a typeCount of size
ValidMatrix(m, size, r) ==
  IF m.t # "array" \/ Len(m.v) # size
  THEN GenerateRandomMatrix(size, r)
  ELSE [i \in 1..size |->
          LET row == m.v[i]
          IN IF row.t # "array" \/ Len(row.v) # size
             THEN GenerateRandomMatrix(size, r)[i]
             ELSE [j \in 1..size |->
                     LET val == row.v[j]
                     IN IF val.t # "number" THEN RandomCell(r)
                        ELSE Max(MATRIX_MIN * MatrixUnit,
                                 Min(MATRIX_MAX * MatrixUnit, val.v))]]

\* validateSettings(settings) for an object with these four fields
ValidateSettings(settings, r) ==
  LET defaults == GetDefaultSettings(r)
      particles ==
        IF settings.particleCount.t = "number"
        THEN ClampRound(settings.particleCount.v, MIN_PARTICLES, MAX_PARTICLES)
        ELSE defaults.particleCount
      kinds ==
        IF settings.typeCount.t = "number"
        THEN ClampRound(settings.typeCount.v, MIN_TYPES, MAX_TYPES)
        ELSE defaults.typeCount
  IN [particleCount |-> particles,
      typeCount |-> kinds,
      interactionMatrix |->
        ValidMatrix(settings.interactionMatrix, kinds \div 10, r),
      bgColor |-> IF settings.bgColor \in {"#000000", "#ffffff"}
                  THEN settings.bgColor ELSE defaults.bgColor,
      colorScheme |->
        IF settings.colorScheme
             \in {"neon", "pastel", "warm", "cool", "monochrome"}
        THEN settings.colorScheme ELSE defaults.colorScheme]

\* loadSettings() when the key holds JSON for an object
LoadSettings(stored, r) ==
  /\ ops < MaxOps
  /\ ops' = ops + 1
  /\ step' = [op |-> "loadSettings", item |-> "object", stored |-> stored,
              settings |-> ValidateSettings(stored, r)]
  /\ UNCHANGED <<width, height, x, y, vx, vy, types, count, typeCount,
                 interactionMatrix, spatialHash, fx, fy, useBruteForce,
                 interactionRadius>>

\* loadSettings() when the key is absent, holds no JSON (JSON.parse throws
\* and the catch falls through) or holds JSON for a non-object
LoadDefaults(item, r) ==
  /\ ops < MaxOps
  /\ ops' = ops + 1
  /\ step' = [op |-> "loadSettings", item |-> item,
              settings |-> GetDefaultSettings(r)]
  /\ UNCHANGED <<width, height, x, y, vx, vy, types, count, typeCount,
                 interactionMatrix, spatialHash, fx, fy, useBruteForce,
                 interactionRadius>>

\* ---- what localStorage may hold ----
StoredParticleCounts ==
  {Num(-50), Num(94), Num(95), Num(1004), Num(20004), Num(20005),
   Num(10000000), Str}
StoredTypeCounts ==
  {Num(-10), Num(15), Num(24), Num(25), Num(84), Num(85), Num(100000), Str}
StoredCells == {Num(-70), Num(12), Str}
StoredRows ==
  {Arr(c) : c \in [1..1 -> StoredCells] \cup [1..2 -> StoredCells]}
    \cup {NotArray}
StoredMatrices ==
  {Arr(m) : m \in [1..2 -> StoredRows] \cup [1..3 -> {NotArray}]}
    \cup {NotArray}
StoredLooks == {<<"#ffffff", "warm">>, <<"red", "bogus">>}

\* the application loads its settings once, before anything else
DoLoadSettings ==
  /\ UNCHANGED <<app, view>>
  /\ ops = 0
  /\ \E pc \in StoredParticleCounts, tc \in StoredTypeCounts,
     m \in StoredMatrices, look \in StoredLooks, r \in Rand :
       \* Math.random() is consulted only when a cell has to be drawn
       /\ r # 0 => (m.t # "array" \/ \E i \in 1..Len(m.v) :
                      m.v[i].t # "array" \/ \E j \in 1..Len(m.v[i].v) :
                        m.v[i].v[j].t # "number")
       /\ LoadSettings([particleCount |-> pc, typeCount |-> tc,
                        interactionMatrix |-> m, bgColor |-> look[1],
                        colorScheme |-> look[2]], r)

DoLoadDefaults ==
  /\ UNCHANGED <<app, view>>
  /\ ops = 0
  /\ \E item \in {"absent", "not JSON", "null", "42"}, r \in Rand :
       LoadDefaults(item, r)

NextSettings == DoLoadSettings \/ DoLoadDefaults

SpecSettings == Init /\ [][NextSettings]_vars

\* ---- fast particles ----
\* An engine some way into a run: particle 0 anywhere in the 24 x 12 px
\* world with any velocity up to MAX_VELOCITY, the others in a row 2 px
\* apart next to the centre, at rest or fast.
FastVelocities ==
  {v \in {-5000, -3000, 0, 4000, 4900} \X {-5000, -3000, 0, 4000, 4900} :
     v[1] * v[1] + v[2] * v[2] <= SPEED_CAP * SPEED_CAP}

InitMoving ==
  \E px \in {Px(5), Px(12), Px(19)}, py \in {Px(6), Px(7)},
     v \in FastVelocities, w \in [1..(MaxParticles - 1) -> {0, 4900}],
     m \in {ZeroMatrix(MIN_TYPES), AttractMatrix(MIN_TYPES)} :
    /\ width = Px(24) /\ height = Px(12)
    /\ count = MaxParticles
    /\ x = [i \in 0..(MaxParticles - 1) |->
              IF i = 0 THEN px ELSE Px(12) + i * Px(2)]
    /\ y = [i \in 0..(MaxParticles - 1) |-> IF i = 0 THEN py ELSE Px(6)]
    /\ vx = [i \in 0..(MaxParticles - 1) |-> IF i = 0 THEN v[1] ELSE w[i]]
    /\ vy = [i \in 0..(MaxParticles - 1) |-> IF i = 0 THEN v[2] ELSE 0]
    /\ types = [i \in 0..(MaxParticles - 1) |-> TypeOf(i, MIN_TYPES)]
    /\ typeCount = MIN_TYPES
    /\ interactionMatrix = m
    /\ fx = Zeros(MaxParticles) /\ fy = Zeros(MaxParticles)
    /\ spatialHash = SpatialHash(Px(CELL_SIZE), Px(24), Px(12))
    /\ useBruteForce = DEFAULT_USE_BRUTE_FORCE
    /\ interactionRadius = Px(INTERACTION_RADIUS)
    /\ ops = 0
    /\ step = [op |-> "initialize", placed |-> MaxParticles]
    /\ app = NoApp
    /\ view = NoView

NextMotion == DoUpdate \/ DoSetBruteForce

SpecMotion == InitMoving /\ [][NextMotion]_vars

\* ---- the frame loop (ParticleApp.gameLoop) ----
\* A frame is one task of the event loop: gameLoop computes dt, calls update,
\* reads the particle arrays for the renderer and requests the next frame.
\* step.op tells how far the running frame has come.
InFrame == step.op \in {"gameLoop", "update", "render"}

\* the event loop hands out the next task at any time, a running one or not
IdleAlways == TRUE

\* the event loop hands out the next task only when no task is running
Idle == ~InFrame

\* gameLoop(timestamp) up to the call of update
FrameEnter(dt) ==
  /\ Idle
  /\ count > 0
  /\ ops < MaxOps
  /\ step' = [op |-> "gameLoop", dt |-> dt]
  /\ UNCHANGED <<width, height, x, y, vx, vy, types, count, typeCount,
                 interactionMatrix, spatialHash, fx, fy, useBruteForce,
                 interactionRadius, ops>>

\* this.simulation.update(dt)
FrameUpdate ==
  /\ UNCHANGED <<app, view>>
  /\ step.op = "gameLoop"
  /\ Update(step.dt)

\* getParticleData() and this.renderer.render(x, y, types, count)
FrameRender ==
  /\ UNCHANGED <<app, view>>
  /\ step.op = "update"
  /\ step' = [op |-> "render", x |-> x, y |-> y, types |-> types,
              count |-> count, updated |-> <<step.x, step.y>>]
  /\ UNCHANGED <<width, height, x, y, vx, vy, types, count, typeCount,
                 interactionMatrix, spatialHash, fx, fy, useBruteForce,
                 interactionRadius, ops>>

\* updateFps and requestAnimationFrame: the frame's task ends
FrameSchedule ==
  /\ UNCHANGED <<app, view>>
  /\ step.op = "render"
  /\ step' = [op |-> "requestAnimationFrame"]
  /\ UNCHANGED <<width, height, x, y, vx, vy, types, count, typeCount,
                 interactionMatrix, spatialHash, fx, fy, useBruteForce,
                 interactionRadius, ops>>

DoFrameEnter ==
  /\ UNCHANGED <<app, view>>
  /\ \E dt \in Dts : FrameEnter(dt)

\* the callbacks the UI and the window call, each a task of its own
UiMatrixChange == Idle /\ DoSetInteractionMatrix
UiInteractionRadiusChange == Idle /\ DoSetInteractionRadius
UiBruteForceChange == Idle /\ DoSetBruteForce
UiTypeAdded == Idle /\ DoAddParticleType
UiTypeRemoved == Idle /\ DoRemoveParticleType
UiParticleCountChange == Idle /\ DoReinitialize
UiResize == Idle /\ DoResize

NextFrame ==
  \/ DoInitializeMoving
  \/ DoFrameEnter
  \/ FrameUpdate
  \/ FrameRender
  \/ FrameSchedule
  \/ UiMatrixChange
  \/ UiInteractionRadiusChange
  \/ UiBruteForceChange
  \/ UiTypeAdded
  \/ UiTypeRemoved
  \/ UiParticleCountChange
  \/ UiResize

SpecFrame == Init /\ [][NextFrame]_vars

\* ---- the spatial index on its own ----
\* cell size and world of the index under test, in pixels
HashConfigs == {<<MIN_INTERACTION_RADIUS, 50, 30>>}

\* coordinates of inserted points, in pixels, inside and outside the world
PointsX == {-30, -10, 10, 30, 45, 50, 60, 90}
PointsY == {10, 25, 45}

InitHash ==
  \E c \in HashConfigs :
    /\ EngineFields(Px(c[2]), Px(c[3]))
    /\ spatialHash = SpatialHash(Px(c[1]), Px(c[2]), Px(c[3]))
    /\ app = NoApp
    /\ view = NoView

\* insert(count, px, py) of a further point; x, y keep the points
InsertPoint(px, py) ==
  /\ count < MaxParticles
  /\ spatialHash' = HashInsert(spatialHash, count, px, py)
  /\ x' = [i \in 0..count |-> IF i = count THEN px ELSE x[i]]
  /\ y' = [i \in 0..count |-> IF i = count THEN py ELSE y[i]]
  /\ count' = count + 1
  /\ step' = [op |-> "insert"]
  /\ UNCHANGED <<width, height, vx, vy, types, typeCount, interactionMatrix,
                 fx, fy, useBruteForce, interactionRadius, ops>>

\* getNearby(x[a], y[a]) for an inserted point a
QueryPoint(a) ==
  /\ step' = [op |-> "getNearby", a |-> a,
              nearby |-> GetNearby(spatialHash, x[a], y[a])]
  /\ UNCHANGED <<width, height, x, y, vx, vy, types, count, typeCount,
                 interactionMatrix, spatialHash, fx, fy, useBruteForce,
                 interactionRadius, ops>>

DoInsertPoint ==
  /\ UNCHANGED <<app, view>>
  /\ \E px \in PointsX, py \in PointsY : InsertPoint(Px(px), Px(py))

DoQueryPoint ==
  /\ UNCHANGED <<app, view>>
  /\ \E a \in Particles : QueryPoint(a)

NextHash == DoInsertPoint \/ DoQueryPoint

SpecHash == InitHash /\ [][NextHash]_vars

\* ------------------------------------------------------------------------
\* ParticleApp (main.js) and UIController (ui.js): the settings object, the
\* UI's copy of it and the fields of this.simulation the handlers set.  A
\* matrix is a function on 0..typeCount-1 as in the engine, with entries in
\* tenths; radii are in pixels.  interactionRadius and useBruteForce are
\* JavaScript values [t, v], as the settings object may lack them.
MaxEvents == 3

maxTypes == 8
minTypes == 2

Undefined == [t |-> "undefined", v |-> 0]
NaN == [t |-> "NaN", v |-> 0]
Bool(b) == [t |-> "boolean", v |-> IF b THEN 1 ELSE 0]

\* settings.name: undefined when the object has no such property
Field(obj, name) == IF name \in DOMAIN obj THEN Num(obj[name]) ELSE Undefined

\* a matrix of the settings layer as a function on 0..size-1
Matrix0(m) ==
  [i \in 0..(Len(m) - 1) |-> [j \in 0..(Len(m) - 1) |-> m[i + 1][j + 1]]]

\* what main.js reads from an object the settings layer returned
AppSettings(s) ==
  [particleCount |-> s.particleCount \div 10,
   typeCount |-> s.typeCount \div 10,
   interactionMatrix |-> Matrix0(s.interactionMatrix),
   interactionRadius |-> Field(s, "interactionRadius"),
   useBruteForce |-> Field(s, "useBruteForce")]

\* ---- this.simulation, as far as the handlers set it ----
\* new ParticleSimulation(width, height)
NewSimulation ==
  [count |-> 0, typeCount |-> 0, interactionMatrix |-> <<>>, types |-> <<>>,
   interactionRadius |-> Num(INTERACTION_RADIUS),
   useBruteForce |-> Bool(DEFAULT_USE_BRUTE_FORCE)]

\* initialize(particleCount, typeCount, interactionMatrix)
SimInitialize(sim, particleCount, tc, matrix) ==
  [sim EXCEPT !.count = particleCount,
              !.typeCount = tc,
              !.interactionMatrix = matrix,
              !.types = [i \in 0..(particleCount - 1) |-> TypeOf(i, tc)]]

\* setInteractionRadius(radius)
SimSetInteractionRadius(sim, radius) ==
  [sim EXCEPT !.interactionRadius = radius]

\* setBruteForce(useBruteForce)
SimSetBruteForce(sim, b) == [sim EXCEPT !.useBruteForce = b]

\* setInteractionMatrix(matrix)
SimSetInteractionMatrix(sim, matrix) ==
  [sim EXCEPT !.interactionMatrix = matrix]

\* addParticleType(newTypeCount, newMatrix)
SimAddParticleType(sim, newTypeCount, newMatrix) ==
  [sim EXCEPT !.typeCount = newTypeCount, !.interactionMatrix = newMatrix]

\* removeParticleType(removedIndex, newTypeCount, newMatrix); every
\* Math.random() of the call returns r
SimRemoveParticleType(sim, removedIndex, newTypeCount, newMatrix, r) ==
  [sim EXCEPT !.typeCount = newTypeCount,
              !.interactionMatrix = newMatrix,
              !.types = [i \in DOMAIN sim.types |->
                           Remap(sim.types[i], removedIndex,
                                 (r * newTypeCount) \div RandDen)]]

\* a new engine, initialized, with the physics settings applied to it
BuildSimulation(settings) ==
  SimSetBruteForce(
    SimSetInteractionRadius(
      SimInitialize(NewSimulation, settings.particleCount,
                    settings.typeCount, settings.interactionMatrix),
      settings.interactionRadius),
    settings.useBruteForce)

\* ---- the handlers of ParticleApp ----
\* a is [settings, ui, simulation, fired]; fired tells that a callback ran

\* the particle-count handler that leaves the new engine at its defaults
HandleParticleCountChangeEarlier(a, n) ==
  [a EXCEPT !.settings.particleCount = n,
            !.simulation = SimInitialize(NewSimulation, n,
                                         a.settings.typeCount,
                                         a.settings.interactionMatrix),
            !.fired = TRUE]

\* handleParticleCountChange(count)
HandleParticleCountChange(a, n) ==
  [a EXCEPT !.settings.particleCount = n,
            !.simulation =
               BuildSimulation([a.settings EXCEPT !.particleCount = n]),
            !.fired = TRUE]

\* handleTypeAdded(typeCount, matrix)
HandleTypeAdded(a, tc, matrix) ==
  [a EXCEPT !.settings.typeCount = tc,
            !.settings.interactionMatrix = matrix,
            !.simulation = SimAddParticleType(a.simulation, tc, matrix),
            !.fired = TRUE]

\* handleTypeRemoved(removedIndex, typeCount, matrix)
HandleTypeRemoved(a, removedIndex, tc, matrix, r) ==
  [a EXCEPT !.settings.typeCount = tc,
            !.settings.interactionMatrix = matrix,
            !.simulation = SimRemoveParticleType(a.simulation, removedIndex,
                                                 tc, matrix, r),
            !.fired = TRUE]

\* handleMatrixChange(matrix)
HandleMatrixChange(a, matrix) ==
  [a EXCEPT !.settings.interactionMatrix = matrix,
            !.simulation = SimSetInteractionMatrix(a.simulation, matrix),
            !.fired = TRUE]

\* handleInteractionRadiusChange(radius)
HandleInteractionRadiusChange(a, radius) ==
  [a EXCEPT !.settings.interactionRadius = radius,
            !.simulation = SimSetInteractionRadius(a.simulation, radius),
            !.fired = TRUE]

\* handleBruteForceChange(useBruteForce)
HandleBruteForceChange(a, b) ==
  [a EXCEPT !.settings.useBruteForce = b,
            !.simulation = SimSetBruteForce(a.simulation, b),
            !.fired = TRUE]

\* the state the UIController constructor sets
UiConstructor ==
  [particleCount |-> 100,
   typeCount |-> 3,
   interactionMatrix |-> Matrix0(GenerateRandomMatrix(3, 0)),
   interactionRadius |-> Num(300),
   useBruteForce |-> Bool(TRUE)]

\* UIController.loadSettings that keeps the type count the UI had
UiLoadSettingsKeepTypeCount(ui, settings) ==
  [particleCount |-> settings.particleCount,
   typeCount |-> ui.typeCount,
   interactionMatrix |-> settings.interactionMatrix,
   interactionRadius |-> settings.interactionRadius,
   useBruteForce |-> settings.useBruteForce]

\* UIController.loadSettings(settings)
UiLoadSettings(ui, settings) ==
  [particleCount |-> settings.particleCount,
   typeCount |-> settings.typeCount,
   interactionMatrix |-> settings.interactionMatrix,
   interactionRadius |-> settings.interactionRadius,
   useBruteForce |-> settings.useBruteForce]

\* resetSettings(); every Math.random() of getDefaultSettings returns r
ResetSettings(a, r) ==
  LET defaults == AppSettings(GetDefaultSettings(r))
  IN [settings |-> defaults,
      ui |-> UiLoadSettings(a.ui, defaults),
      simulation |-> BuildSimulation(defaults),
      fired |-> TRUE]

\* applyRandomization(); every Math.random() of the call returns r
ApplyRandomization(a, r) ==
  LET tc == ((r * 7) \div RandDen) + 2
      matrix == Matrix0(GenerateRandomMatrix(tc, r))
      settings == [a.settings EXCEPT !.typeCount = tc,
                                     !.interactionMatrix = matrix]
  IN [settings |-> settings,
      ui |-> UiLoadSettings(a.ui, settings),
      simulation |-> BuildSimulation(settings),
      fired |-> TRUE]

\* ---- UIController ----
\* the matrix of addParticleType: the old entries kept, the new row and
\* column random
UiAddMatrix(m, tc, r) ==
  [i \in 0..tc |-> [j \in 0..tc |->
     IF i < tc /\ j < tc THEN m[i][j] ELSE RandomCell(r)]]

\* addParticleType without the test against maxTypes
UiAddParticleTypeUnguarded(a, r) ==
  LET newSize == a.ui.typeCount + 1
      newMatrix == UiAddMatrix(a.ui.interactionMatrix, a.ui.typeCount, r)
  IN HandleTypeAdded([a EXCEPT !.ui.interactionMatrix = newMatrix,
                               !.ui.typeCount = newSize],
                     newSize, newMatrix)

\* addParticleType()
UiAddParticleType(a, r) ==
  IF a.ui.typeCount >= maxTypes THEN a
  ELSE LET newSize == a.ui.typeCount + 1
           newMatrix == UiAddMatrix(a.ui.interactionMatrix, a.ui.typeCount, r)
       IN HandleTypeAdded([a EXCEPT !.ui.interactionMatrix = newMatrix,
                                    !.ui.typeCount = newSize],
                          newSize, newMatrix)

\* removeParticleType dropping the last row and column whatever the index
UiRemoveMatrixLast(m, tc, typeIndex) ==
  [i \in 0..(tc - 2) |-> [j \in 0..(tc - 2) |-> m[i][j]]]

\* the matrix of removeParticleType: row and column typeIndex skipped
UiRemoveMatrix(m, tc, typeIndex) ==
  [i \in 0..(tc - 2) |-> [j \in 0..(tc - 2) |->
     m[IF i < typeIndex THEN i ELSE i + 1][IF j < typeIndex THEN j ELSE j + 1]]]

\* removeParticleType(typeIndex)
UiRemoveParticleType(a, typeIndex, r) ==
  IF a.ui.typeCount <= minTypes THEN a
  ELSE IF typeIndex < 0 \/ typeIndex >= a.ui.typeCount THEN a
  ELSE LET newSize == a.ui.typeCount - 1
           newMatrix ==
             UiRemoveMatrix(a.ui.interactionMatrix, a.ui.typeCount, typeIndex)
       IN HandleTypeRemoved([a EXCEPT !.ui.interactionMatrix = newMatrix,
                                      !.ui.typeCount = newSize],
                            typeIndex, newSize, newMatrix, r)

\* createZeroMatrix(size)
CreateZeroMatrix(size) ==
  [i \in 0..(size - 1) |-> [j \in 0..(size - 1) |-> 0]]

\* the click handler of "Randomize matrix"
UiRandomizeMatrix(a, r) ==
  LET matrix == Matrix0(GenerateRandomMatrix(a.ui.typeCount, r))
  IN HandleMatrixChange([a EXCEPT !.ui.interactionMatrix = matrix], matrix)

\* the click handler of "Clear matrix"
UiClearMatrix(a) ==
  LET matrix == CreateZeroMatrix(a.ui.typeCount)
  IN HandleMatrixChange([a EXCEPT !.ui.interactionMatrix = matrix], matrix)

\* the change handler of the matrix cell (i, j); value is parseFloat of the
\* text typed
UiCellChange(a, i, j, value) ==
  IF value.t = "NaN" THEN a
  ELSE LET matrix ==
             [a.ui.interactionMatrix EXCEPT
                ![i][j] = Max(MATRIX_MIN * MatrixUnit,
                              Min(MATRIX_MAX * MatrixUnit, value.v))]
       IN HandleMatrixChange([a EXCEPT !.ui.interactionMatrix = matrix],
                             matrix)

\* the input handler of the particle-count slider
UiParticleCountInput(a, n) ==
  HandleParticleCountChange([a EXCEPT !.ui.particleCount = n], n)

\* the input handler of the interaction-radius slider
UiInteractionRadiusInput(a, radius) ==
  HandleInteractionRadiusChange([a EXCEPT !.ui.interactionRadius = radius],
                                radius)

\* the change handler of the brute-force toggle
UiBruteForceToggle(a, b) ==
  HandleBruteForceChange([a EXCEPT !.ui.useBruteForce = b], b)

\* ---- the application's run ----
\* the outcomes of Math.random() used here
AppRand == {0, RandDen - 1}

\* what localStorage holds: nothing, or a valid object with tc types and a
\* matrix of pairwise different entries
StoredTypes == {MIN_TYPES, MAX_TYPES}
StoredApp(tc) ==
  [particleCount |-> Num(MIN_PARTICLES * 10),
   typeCount |-> Num(tc * 10),
   interactionMatrix |->
     Arr([i \in 1..tc |-> Arr([j \in 1..tc |->
            Num((i - 1) * MAX_TYPES + (j - 1) - 31)])]),
   bgColor |-> "#000000",
   colorScheme |-> "neon"]

LoadedSettings ==
  {AppSettings(GetDefaultSettings(r)) : r \in AppRand}
    \cup {AppSettings(ValidateSettings(StoredApp(tc), 0)) : tc \in StoredTypes}

\* settings.randomizeOnOpen as init() reads it
RandomizeOnOpen == BOOLEAN

\* what the user can enter
ParticleCounts == {MIN_PARTICLES, MIN_PARTICLES + 1}
SliderRadii == {MIN_INTERACTION_RADIUS, MAX_INTERACTION_RADIUS}
CellTexts == {NaN, Num(-70), Num(12)}

\* the application after an event: the state b the handlers left, the event
\* and the state a it met
AfterEvent(a, op, arg, b) ==
  [settings |-> b.settings, ui |-> b.ui, simulation |-> b.simulation,
   events |-> a.events + 1,
   event |-> [op |-> op, arg |-> arg, fired |-> b.fired,
              before |-> [settings |-> a.settings, ui |-> a.ui,
                          simulation |-> a.simulation]]]

\* the state an event handler starts from
Before == [settings |-> app.settings, ui |-> app.ui,
           simulation |-> app.simulation, fired |-> FALSE]

\* ParticleApp.init(): loadSettings, the engine built from the settings and
\* the UI loaded with them
InitApp ==
  /\ Constructor(Px(24), Px(12))
  /\ view = NoView
  /\ \E settings \in LoadedSettings, randomize \in RandomizeOnOpen,
        r \in AppRand :
       LET loaded == [settings |-> settings,
                      ui |-> UiLoadSettings(UiConstructor, settings),
                      simulation |-> BuildSimulation(settings),
                      fired |-> FALSE]
           a == IF randomize THEN ApplyRandomization(loaded, r) ELSE loaded
       IN app = [settings |-> a.settings,
                 ui |-> a.ui,
                 simulation |-> a.simulation,
                 events |-> 0,
                 event |-> [op |-> "init", arg |-> 0, fired |-> a.fired]]

AppEvent(op, arg, b) ==
  /\ app.events < MaxEvents
  /\ app' = AfterEvent(app, op, arg, b)
  /\ UNCHANGED <<engine, view>>

ClickAddType ==
  \E r \in AppRand : AppEvent("addParticleType", r, UiAddParticleType(Before, r))

\* a click on the dot of type k, or removeParticleType(k) called otherwise
ClickRemoveType ==
  \E k \in {-1, 0, 1, app.ui.typeCount - 1, app.ui.typeCount}, r \in AppRand :
    \* Math.random() is consulted only when a particle is reassigned
    /\ r # 0 => (app.ui.typeCount > minTypes /\ k >= 0
                 /\ \E i \in DOMAIN app.simulation.types :
                      app.simulation.types[i] = k)
    /\ AppEvent("removeParticleType", k, UiRemoveParticleType(Before, k, r))

ClickRandomizeMatrix ==
  \E r \in AppRand : AppEvent("randomizeMatrix", r, UiRandomizeMatrix(Before, r))

ClickClearMatrix == AppEvent("clearMatrix", 0, UiClearMatrix(Before))

EditCell ==
  \E i \in {0, app.ui.typeCount - 1}, value \in CellTexts :
    AppEvent("cellChange", i, UiCellChange(Before, i, 0, value))

MoveParticleCount ==
  \E n \in ParticleCounts :
    AppEvent("particleCount", n, UiParticleCountInput(Before, n))

MoveInteractionRadius ==
  \E radius \in SliderRadii :
    AppEvent("interactionRadius", radius,
             UiInteractionRadiusInput(Before, Num(radius)))

ToggleBruteForce ==
  \E b \in BOOLEAN :
    AppEvent("bruteForce", 0, UiBruteForceToggle(Before, Bool(b)))

ClickReset ==
  \E r \in AppRand : AppEvent("reset", r, ResetSettings(Before, r))

NextApp ==
  \/ ClickAddType
  \/ ClickRemoveType
  \/ ClickRandomizeMatrix
  \/ ClickClearMatrix
  \/ EditCell
  \/ MoveParticleCount
  \/ MoveInteractionRadius
  \/ ToggleBruteForce
  \/ ClickReset

SpecApp == InitApp /\ [][NextApp]_vars

\* ------------------------------------------------------------------------
\* ZoomController (zoom-controller.js) and the renderer's zoom and pan
\* (WebGLRenderer.setZoom, setPan).  Zoom is in 1/ZoomUnit, pan in
\* 1/PanUnit px, cursor positions and wheel deltas in whole px.
MIN_ZOOM == <<25, 100>>                      \* 0.25
MAX_ZOOM == 4
ZOOM_STEP == <<25, 100>>                     \* 0.25
WHEEL_ZOOM_SENSITIVITY == <<1, 100>>         \* 0.01
MOUSE_WHEEL_ZOOM_SENSITIVITY == <<2, 1000>>  \* 0.002

ZoomUnit == 1000
PanUnit == 1000

\* the canvas: clientWidth x clientHeight px, its top left corner at (0, 0)
ViewWidth == 800
ViewHeight == 600

\* Math.max(MIN_ZOOM, Math.min(MAX_ZOOM, zoom))
ClampZoom(zoom) ==
  Max((MIN_ZOOM[1] * ZoomUnit) \div MIN_ZOOM[2],
      Min(MAX_ZOOM * ZoomUnit, zoom))

\* WebGLRenderer.setZoom(zoom)
RendererSetZoom(v, zoom) ==
  [v EXCEPT !.zoom = Max((25 * ZoomUnit) \div 100, Min(4 * ZoomUnit, zoom))]

\* WebGLRenderer.setPan(x, y)
RendererSetPan(v, px, py) == [v EXCEPT !.panX = px, !.panY = py]

\* d / zoom for d in px, in units of pan
OverZoom(d, zoom) == TDiv(d * PanUnit * ZoomUnit, zoom)

\* setZoom(zoom)
SetZoom(v, zoom) == RendererSetZoom(v, ClampZoom(zoom))

\* zoomIn()
ZoomIn(v) == SetZoom(v, v.zoom + (ZOOM_STEP[1] * ZoomUnit) \div ZOOM_STEP[2])

\* zoomOut()
ZoomOut(v) == SetZoom(v, v.zoom - (ZOOM_STEP[1] * ZoomUnit) \div ZOOM_STEP[2])

\* centerView()
CenterView(v) ==
  RendererSetPan(v, (ViewWidth * PanUnit) \div 2, (ViewHeight * PanUnit) \div 2)

\* resetView()
ResetView(v) == CenterView(SetZoom(v, ZoomUnit))

\* zoomTowardPoint(screenX, screenY, newZoom)
ZoomTowardPoint(v, screenX, screenY, newZoom) ==
  LET canvasX == screenX - 0
      canvasY == screenY - 0
      centerX == ViewWidth \div 2
      centerY == ViewHeight \div 2
      worldX == v.panX + OverZoom(canvasX - centerX, v.zoom)
      worldY == v.panY + OverZoom(canvasY - centerY, v.zoom)
      zoomed == RendererSetZoom(v, newZoom)
  IN RendererSetPan(zoomed,
                    worldX - OverZoom(canvasX - centerX, newZoom),
                    worldY - OverZoom(canvasY - centerY, newZoom))

\* handleWheelZoom(e, sensitivity)
HandleWheelZoom(v, e, sensitivity) ==
  LET zoomDelta == TDiv((-e.deltaY) * sensitivity[1] * ZoomUnit, sensitivity[2])
      newZoom == ClampZoom(v.zoom + zoomDelta)
  IN IF newZoom # v.zoom
     THEN ZoomTowardPoint(v, e.clientX, e.clientY, newZoom)
     ELSE v

\* handleWheelPan(e)
HandleWheelPan(v, e) ==
  RendererSetPan(v, v.panX + OverZoom(e.deltaX, v.zoom),
                    v.panY + OverZoom(e.deltaY, v.zoom))

\* handleWheel(e)
HandleWheel(v, e) ==
  IF v.isPanning THEN HandleWheelZoom(v, e, MOUSE_WHEEL_ZOOM_SENSITIVITY)
  ELSE IF e.ctrlKey THEN HandleWheelZoom(v, e, WHEEL_ZOOM_SENSITIVITY)
  ELSE HandleWheelPan(v, e)

\* startPan(x, y)
StartPan(v, px, py) ==
  [v EXCEPT !.isPanning = TRUE, !.lastPanX = px, !.lastPanY = py]

\* endPan()
EndPan(v) == [v EXCEPT !.isPanning = FALSE]

\* handleMouseDown(e)
HandleMouseDown(v, e) ==
  IF e.button = 1 THEN StartPan(v, e.clientX, e.clientY) ELSE v

\* handleMouseMove(e)
HandleMouseMove(v, e) ==
  IF ~v.isPanning THEN v
  ELSE LET deltaX == e.clientX - v.lastPanX
           deltaY == e.clientY - v.lastPanY
           moved == RendererSetPan(v, v.panX - OverZoom(deltaX, v.zoom),
                                      v.panY - OverZoom(deltaY, v.zoom))
       IN [moved EXCEPT !.lastPanX = e.clientX, !.lastPanY = e.clientY]

\* handleMouseUp ending the pan whatever button was released
HandleMouseUpAnyButton(v, e) ==
  IF v.isPanning THEN EndPan(v) ELSE v

\* handleMouseUp(e)
HandleMouseUp(v, e) ==
  IF e.button = 1 /\ v.isPanning THEN EndPan(v) ELSE v

\* handleKeyDown(e)
HandleKeyDown(v, e) ==
  IF e.input THEN v
  ELSE IF ~e.mod THEN v
  ELSE IF e.key \in {"=", "+"} THEN ZoomIn(v)
  ELSE IF e.key = "-" THEN ZoomOut(v)
  ELSE IF e.key = "0" THEN ResetView(v)
  ELSE v

\* ---- the events the controller listens to ----
\* cursor positions: the canvas centre and a point right of and below it
CursorXs == {ViewWidth \div 2, 600}
CursorYs == {ViewHeight \div 2, 450}
\* the left, the middle and the right button
Buttons == {0, 1, 2}
\* one notch of a mouse wheel either way
WheelDeltas == {-100, 100}
\* values of the zoom slider, below, inside and above the zoom range
SliderZooms == {100, 1500, 5000}
Keys == {"=", "-", "0", "a"}

\* the controller's and the renderer's fields in view
ViewFields ==
  [isPanning |-> view.isPanning, lastPanX |-> view.lastPanX,
   lastPanY |-> view.lastPanY, zoom |-> view.zoom,
   panX |-> view.panX, panY |-> view.panY]

\* new WebGLRenderer, new ZoomController and centerView() (main.js)
InitView ==
  /\ Constructor(Px(24), Px(12))
  /\ app = NoApp
  /\ LET v == CenterView([isPanning |-> FALSE, lastPanX |-> 0, lastPanY |-> 0,
                          zoom |-> ZoomUnit, panX |-> 0, panY |-> 0])
     IN view = [isPanning |-> v.isPanning, lastPanX |-> v.lastPanX,
                lastPanY |-> v.lastPanY, zoom |-> v.zoom,
                panX |-> v.panX, panY |-> v.panY,
                middle |-> FALSE, events |-> 0,
                event |-> [op |-> "init"]]

\* the view after the event e of kind op was handled and left the fields v;
\* middle tells whether a middle-button press on the canvas has not been
\* followed by a middle-button release
ViewEvent(op, e, v, middle) ==
  /\ view.events < MaxEvents
  /\ view' = [isPanning |-> v.isPanning, lastPanX |-> v.lastPanX,
              lastPanY |-> v.lastPanY, zoom |-> v.zoom,
              panX |-> v.panX, panY |-> v.panY,
              middle |-> middle, events |-> view.events + 1,
              event |-> [op |-> op, e |-> e, before |-> ViewFields]]
  /\ UNCHANGED <<engine, app>>

\* mousedown on the canvas
CanvasMouseDown ==
  \E button \in Buttons, cx \in CursorXs, cy \in CursorYs :
    LET e == [button |-> button, clientX |-> cx, clientY |-> cy]
    IN ViewEvent("mousedown", e, HandleMouseDown(ViewFields, e),
                 view.middle \/ button = 1)

\* mousedown elsewhere in the document: no listener of the controller
OtherMouseDown ==
  \E button \in Buttons :
    LET e == [button |-> button, clientX |-> 0, clientY |-> 0]
    IN ViewEvent("mousedown elsewhere", e, ViewFields, view.middle)

MouseMove ==
  \E cx \in CursorXs, cy \in CursorYs :
    LET e == [button |-> 0, clientX |-> cx, clientY |-> cy]
    IN ViewEvent("mousemove", e, HandleMouseMove(ViewFields, e), view.middle)

MouseUp ==
  \E button \in Buttons :
    LET e == [button |-> button, clientX |-> 0, clientY |-> 0]
    IN ViewEvent("mouseup", e, HandleMouseUp(ViewFields, e),
                 view.middle /\ button # 1)

Wheel ==
  \E dy \in WheelDeltas, ctrl \in BOOLEAN, cx \in CursorXs, cy \in CursorYs :
    LET e == [deltaX |-> 0, deltaY |-> dy, ctrlKey |-> ctrl,
              clientX |-> cx, clientY |-> cy]
    IN ViewEvent("wheel", e, HandleWheel(ViewFields, e), view.middle)

SliderInput ==
  \E zoom \in SliderZooms :
    ViewEvent("slider", [zoom |-> zoom], SetZoom(ViewFields, zoom),
              view.middle)

ClickZoomIn == ViewEvent("zoomIn", [zoom |-> 0], ZoomIn(ViewFields), view.middle)

ClickZoomOut ==
  ViewEvent("zoomOut", [zoom |-> 0], ZoomOut(ViewFields), view.middle)

KeyDown ==
  \E input \in BOOLEAN, mod \in BOOLEAN, key \in Keys :
    LET e == [input |-> input, mod |-> mod, key |-> key]
    IN ViewEvent("keydown", e, HandleKeyDown(ViewFields, e), view.middle)

NextView ==
  \/ CanvasMouseDown
  \/ OtherMouseDown
  \/ MouseMove
  \/ MouseUp
  \/ Wheel
  \/ SliderInput
  \/ ClickZoomIn
  \/ ClickZoomOut
  \/ KeyDown

SpecZoom == InitView /\ [][NextView]_vars

\* ------------------------------------------------------------------------
\* Properties

InBounds(i) ==
  /\ x[i] >= RADIUS /\ x[i] <= width - RADIUS
  /\ y[i] >= RADIUS /\ y[i] <= height - RADIUS

\* a world in which [PARTICLE_RADIUS, dimension - PARTICLE_RADIUS] is not
\* empty on either axis
WorldFits == width >= 2 * RADIUS /\ height >= 2 * RADIUS

UpdateRan == step.op = "update" /\ step.ran

C2_TypesBelowTypeCount ==
  count > 0 => \A i \in Particles : types[i] < typeCount

\* a removal that had to shift a particle of the last type down
C2_Witness ==
  /\ step.op = "removeParticleType"
  /\ \E i \in Particles : step.types[i] = step.typeCount - 1
                          /\ step.types[i] > step.removedIndex

\* C3: removeParticleType maps a prior type t below the removed index to t,
\* above it to t - 1, and equal to it to some type below the new typeCount;
\* no type at or above the new typeCount remains.
C3_RemoveRemaps ==
  step.op = "removeParticleType" =>
    \A i \in Particles :
      LET t == step.types[i]
          r == step.removedIndex
      IN /\ t < r => types[i] = t
         /\ t > r => types[i] = t - 1
         /\ t = r => types[i] \in 0..(typeCount - 1)
         /\ types[i] < typeCount

\* the example of the claim: four types, index 1 removed, with particles of
\* the removed type and of types 2 and 3
C3_Witness ==
  /\ step.op = "removeParticleType"
  /\ step.typeCount = 4
  /\ step.removedIndex = 1
  /\ \E i, j, k \in Particles :
       /\ step.types[i] = 1
       /\ step.types[j] = 2 /\ types[j] = 1
       /\ step.types[k] = 3 /\ types[k] = 2

\* squared distance of particles i and j when the last update computed forces
PreDistSq(i, j) ==
  LET dx == step.x[j] - step.x[i]
      dy == step.y[j] - step.y[i]
  IN dx * dx + dy * dy

\* how often the last update processed the unordered pair {i, j}
Occurrences(i, j) ==
  Cardinality({k \in 1..Len(step.pairs) :
                 step.pairs[k] = <<i, j>> \/ step.pairs[k] = <<j, i>>})

\* C4 as stated: whenever update runs in spatial-hash mode, the cell size of
\* the spatial index equals the current interaction radius.
C4_CellSizeIsRadius ==
  (UpdateRan /\ ~useBruteForce) => spatialHash.cellSize = interactionRadius

\* C5 as stated: in spatial-hash mode every pair with 1e-4 <= d2 <= radius^2
\* contributes exactly once, and no pair with d2 > radius^2 contributes.
C5_EveryPairInRadiusOnce ==
  (UpdateRan /\ ~useBruteForce) =>
    \A i, j \in Particles :
      i < j =>
        /\ (PreDistSq(i, j) >= MinDistSq
            /\ PreDistSq(i, j) <= interactionRadius * interactionRadius)
           => Occurrences(i, j) = 1
        /\ PreDistSq(i, j) > interactionRadius * interactionRadius
           => Occurrences(i, j) = 0

\* C6 as stated: two inserted points within cellSize of each other on both
\* axes are in each other's getNearby result, wherever they lie.
C6_NearbyIsSound ==
  step.op = "getNearby" =>
    \A b \in Particles :
      (/\ b # step.a
       /\ Abs(x[b] - x[step.a]) <= spatialHash.cellSize
       /\ Abs(y[b] - y[step.a]) <= spatialHash.cellSize)
      => \E n \in 1..Len(step.nearby) : step.nearby[n] = b

\* C7: for a processed pair at distance >= REPULSION_RADIUS, a positive
\* symmetrized attraction adds to i a force with no component away from j
\* and to j one with no component away from i (pointing toward the other
\* particle unless it vanishes); a negative one adds forces pointing away.
C7_PositiveAttracts ==
  UpdateRan =>
    \A k \in 1..Len(step.applied) :
      LET a == step.applied[k]
          dx == step.x[a.j] - step.x[a.i]
          dy == step.y[a.j] - step.y[a.i]
          towardJ == a.di[1] * dx + a.di[2] * dy
          towardI == -(a.dj[1] * dx + a.dj[2] * dy)
      IN PreDistSq(a.i, a.j) >= REPULSION * REPULSION =>
           /\ AttractionSum(a.i, a.j) > 0 =>
                /\ towardJ >= 0 /\ towardI >= 0
                /\ a.di # <<0, 0>> => towardJ > 0
                /\ a.dj # <<0, 0>> => towardI > 0
           /\ AttractionSum(a.i, a.j) < 0 =>
                /\ towardJ <= 0 /\ towardI <= 0
                /\ a.di # <<0, 0>> => towardJ < 0
                /\ a.dj # <<0, 0>> => towardI < 0

\* a spatial-hash step that pulled two attracting particles, at least
\* REPULSION_RADIUS apart, toward each other
C7_Witness ==
  /\ UpdateRan
  /\ ~useBruteForce
  /\ \E k \in 1..Len(step.applied) :
       LET a == step.applied[k]
           dx == step.x[a.j] - step.x[a.i]
           dy == step.y[a.j] - step.y[a.i]
       IN /\ PreDistSq(a.i, a.j) >= REPULSION * REPULSION
          /\ AttractionSum(a.i, a.j) > 0
          /\ a.di[1] * dx + a.di[2] * dy > 0
          /\ a.dj[1] * dx + a.dj[2] * dy < 0

RECURSIVE SumFrom(_, _)
SumFrom(f, i) == IF i >= count THEN 0 ELSE f[i] + SumFrom(f, i + 1)

\* C8: each processed pair adds F to one accumulator and -F to the other, so
\* the accumulators sum to zero on both axes.
C8_ForcesCancel ==
  /\ count > 0 => SumFrom(fx, 0) = 0 /\ SumFrom(fy, 0) = 0
  /\ UpdateRan =>
       \A k \in 1..Len(step.applied) :
         /\ step.applied[k].dj[1] = -step.applied[k].di[1]
         /\ step.applied[k].dj[2] = -step.applied[k].di[2]

\* a force phase that left non-zero accumulators under an asymmetric matrix
C8_Witness ==
  /\ UpdateRan
  /\ \E k \in 1..Len(step.pairs) :
       LET i == step.pairs[k][1]
           j == step.pairs[k][2]
       IN /\ interactionMatrix[types[i]][types[j]]
               # interactionMatrix[types[j]][types[i]]
          /\ fx[i] # 0
          /\ fx[j] = -fx[i]

\* the premises of the no-op step, on the state the last update started from
AtRest ==
  /\ \A a, b \in 0..(typeCount - 1) : interactionMatrix[a][b] = 0
  /\ \A i \in Particles : step.vx[i] = 0 /\ step.vy[i] = 0
  /\ \A i \in Particles :
       /\ step.x[i] > RADIUS /\ step.x[i] < width - RADIUS
       /\ step.y[i] > RADIUS /\ step.y[i] < height - RADIUS

Unmoved ==
  /\ x = step.x /\ y = step.y
  /\ vx = step.vx /\ vy = step.vy

\* C9 as stated: with an all-zero matrix, zero velocities and every particle
\* strictly inside the bounds, update changes no position and no velocity.
C9_NoOpStep == (UpdateRan /\ AtRest) => Unmoved

\* no two particles closer than REPULSION_RADIUS
Apart ==
  \A i, j \in Particles :
    i # j => PreDistSq(i, j) >= REPULSION * REPULSION

\* C9 amended: the same, provided no two particles are closer to each other
\* than REPULSION_RADIUS (closer pairs repel whatever the matrix is).
C9_NoOpStepWhenApart == (UpdateRan /\ AtRest /\ Apart) => Unmoved

\* a step from rest that processed a pair of particles
C9_Witness ==
  /\ UpdateRan /\ AtRest /\ Apart
  /\ ~useBruteForce
  /\ Len(step.pairs) > 0

Damped(v) == TDiv(Abs(v) * DAMPING[1], DAMPING[2])

\* the reflection of one axis: integrated coordinate p and velocity v, final
\* coordinate q and velocity w, in a world of size dim
Reflected(p, v, q, w, dim) ==
  /\ p < RADIUS => (q = RADIUS /\ w >= 0 /\ w = Damped(v))
  /\ p > dim - RADIUS => (q = dim - RADIUS /\ w <= 0 /\ w = -Damped(v))

Moving == \E i \in Particles : vx[i] # 0 \/ vy[i] # 0

\* C11: a step that adds a type to an initialized engine changes typeCount
\* and the matrix only: count, positions, velocities and type indices of the
\* particles, the world and the mode settings stay as they were.
C11_AddKeepsParticles ==
  [][(count > 0 /\ typeCount' = typeCount + 1) =>
       UNCHANGED <<count, x, y, vx, vy, types, width, height,
                   spatialHash, useBruteForce, interactionRadius>>]_vars

\* a type added while particles are moving
C11_Witness ==
  /\ step.op = "addParticleType"
  /\ typeCount > MIN_TYPES
  /\ Moving
  /\ \E i \in Particles : types[i] = 1

\* C12: setInteractionMatrix, setInteractionRadius and setBruteForce leave
\* count, x, y, vx, vy and types unchanged; removeParticleType leaves count,
\* x, y, vx and vy unchanged.
C12_SettersKeepParticles ==
  [][/\ step'.op \in {"setInteractionMatrix", "setInteractionRadius",
                      "setBruteForce"}
        => UNCHANGED <<count, x, y, vx, vy, types>>
     /\ step'.op = "removeParticleType"
        => UNCHANGED <<count, x, y, vx, vy>>]_vars

\* the mode switched to the spatial hash while particles are moving
C12_Witness ==
  /\ step.op = "setBruteForce"
  /\ ~useBruteForce
  /\ Moving

\* initialize has returned
Initialized == step.op = "initialize"

\* the sampling loop stays within its attempt cap, and fallback placement
\* happens only for particles left unplaced when the cap was reached
WithinAttemptCap ==
  /\ Placing => (step.attempts <= 100 * count /\ step.placed <= count)
  /\ Initialized =>
       /\ step.attempts <= 100 * count
       /\ step.placed < count => step.attempts = 100 * count

\* every particle has a position in the padded bounds and a type
AllPlaced ==
  \A i \in Particles : InBounds(i) /\ types[i] = TypeOf(i, typeCount)

C14_PlacedApart ==
  (Initialized /\ step.placed = count /\ WorldFits) =>
    \A i, j \in Particles :
      i < j =>
        LET dx == x[j] - x[i]
            dy == y[j] - y[i]
        IN 4 * (dx * dx + dy * dy) >= 25 * RADIUS * RADIUS

\* C15: whatever the settings key holds, loadSettings returns an integer
\* particleCount in [10, 2000], an integer typeCount in [2, 8] and a matrix
\* of exactly typeCount rows of exactly typeCount numbers in [-5, 5].
C15_LoadedSettingsValid ==
  step.op = "loadSettings" =>
    LET s == step.settings
        size == s.typeCount \div 10
    IN /\ s.particleCount % 10 = 0
       /\ s.particleCount >= MIN_PARTICLES * 10
       /\ s.particleCount <= MAX_PARTICLES * 10
       /\ s.typeCount % 10 = 0
       /\ size >= MIN_TYPES /\ size <= MAX_TYPES
       /\ Len(s.interactionMatrix) = size
       /\ \A i \in 1..size :
            /\ Len(s.interactionMatrix[i]) = size
            /\ \A j \in 1..size :
                 /\ s.interactionMatrix[i][j] >= MATRIX_MIN * MatrixUnit
                 /\ s.interactionMatrix[i][j] <= MATRIX_MAX * MatrixUnit

\* a stored object with a fractional particle count, a fractional type count
\* and a square matrix holding an out-of-range cell and a non-numeric cell
C15_Witness ==
  /\ step.op = "loadSettings"
  /\ step.item = "object"
  /\ step.stored.particleCount = Num(1004)
  /\ step.stored.typeCount = Num(15)
  /\ step.stored.interactionMatrix.t = "array"
  /\ Len(step.stored.interactionMatrix.v) = 2
  /\ step.stored.interactionMatrix.v[1] = Arr(<<Num(-70), Str>>)
  /\ step.settings.particleCount = 1000
  /\ step.settings.interactionMatrix[1][1] = MATRIX_MIN * MatrixUnit

\* C16 as stated: every configuration object the settings layer produces
\* carries an integer interactionRadius in [20, 1000] and a boolean
\* useBruteForce.
C16_SettingsCarryRadiusAndMode ==
  step.op = "loadSettings" =>
    /\ {"interactionRadius", "useBruteForce"} \subseteq DOMAIN step.settings
    /\ step.settings.interactionRadius % 10 = 0
    /\ step.settings.interactionRadius >= MIN_INTERACTION_RADIUS * 10
    /\ step.settings.interactionRadius <= MAX_INTERACTION_RADIUS * 10
    /\ step.settings.useBruteForce \in BOOLEAN

\* q is p clamped to [PARTICLE_RADIUS, dim - PARTICLE_RADIUS]: cut to the
\* upper end first, then to the lower end
ClampedInto(q, p, dim) ==
  LET cut == IF p > dim - RADIUS THEN dim - RADIUS ELSE p
  IN q = IF cut < RADIUS THEN RADIUS ELSE cut

\* the spatial index matches the engine's world and holds no particle
IndexFresh ==
  /\ spatialHash.width = width /\ spatialHash.height = height
  /\ spatialHash.cols * spatialHash.cellSize >= width
  /\ (spatialHash.cols - 1) * spatialHash.cellSize < width
  /\ spatialHash.rows * spatialHash.cellSize >= height
  /\ (spatialHash.rows - 1) * spatialHash.cellSize < height
  /\ DOMAIN spatialHash.grid = 0..(spatialHash.cols * spatialHash.rows - 1)
  /\ \A c \in DOMAIN spatialHash.grid : spatialHash.grid[c] = <<>>

\* what resize does to the velocities, the types and the spatial index
ResizeKeepsRest ==
  /\ UNCHANGED <<vx, vy, types, count>>
  /\ IndexFresh'

\* C17: resize sets every position to the old position times new dimension
\* over old dimension, clamped to [PARTICLE_RADIUS, new dimension -
\* PARTICLE_RADIUS], keeps velocities and types, and leaves the spatial
\* index with the new width and height, cols and rows their ceilings over
\* cellSize, and all cells empty.
C17_ResizeRescales ==
  [][step'.op = "resize" =>
       /\ ResizeKeepsRest
       /\ \A i \in Particles :
            /\ ClampedInto(x'[i], (x[i] * width') \div width, width')
            /\ ClampedInto(y'[i], (y[i] * height') \div height, height')]_vars

\* a resize from the 24 px wide world to the 900 px wide one that carried a
\* moving particle from x = 8 or 16 to x = 300 or 600
C17_Witness ==
  /\ step.op = "resize"
  /\ width = Px(900)
  /\ Moving
  /\ \E i \in Particles : x[i] \in {Px(300), Px(600)}

\* C18: after every update every particle's speed is at most MAX_VELOCITY,
\* reflected particles included.
C18_SpeedCapped ==
  UpdateRan =>
    \A i \in Particles : vx[i] * vx[i] + vy[i] * vy[i] <= SPEED_CAP * SPEED_CAP

\* particle i crossed a wall in the last update
HitWall(i) ==
  \/ step.moved[i].x < RADIUS \/ step.moved[i].x > width - RADIUS
  \/ step.moved[i].y < RADIUS \/ step.moved[i].y > height - RADIUS

\* an update in which a particle was pushed beyond MAX_VELOCITY by a force,
\* was cut back to it and then hit a wall
C18_Witness ==
  /\ UpdateRan
  /\ \E i \in Particles :
       LET bx == TDiv((step.vx[i] + fx[i] * step.dtScale) * FRICTION[1],
                      FRICTION[2])
           by == TDiv((step.vy[i] + fy[i] * step.dtScale) * FRICTION[1],
                      FRICTION[2])
       IN /\ fx[i] # 0
          /\ bx * bx + by * by > SPEED_CAP * SPEED_CAP
          /\ HitWall(i)

UiOps ==
  {"setInteractionMatrix", "setInteractionRadius", "setBruteForce",
   "addParticleType", "removeParticleType", "initialize", "resize"}

\* C20: within a frame update runs once and to its end, then the renderer
\* reads the arrays that update left, then the frame ends; the next update
\* starts only in a later frame, and no UI callback runs from the start of
\* a frame's update to the end of the frame.
C20_FrameOrder ==
  [][/\ step.op = "gameLoop" => step'.op = "update"
     /\ step'.op = "update" => step.op = "gameLoop"
     /\ step.op = "update" => step'.op = "render"
     /\ step'.op = "render" =>
          /\ step.op = "update"
          /\ UNCHANGED <<x, y, vx, vy, types, count>>
          /\ step'.x = x /\ step'.y = y
          /\ step'.types = types /\ step'.count = count
     /\ step.op = "render" => step'.op = "requestAnimationFrame"
     /\ step'.op = "gameLoop" => ~InFrame
     /\ step'.op \in UiOps => ~InFrame]_vars

\* the renderer reading the arrays of a frame that moved the particles,
\* after the UI switched the engine to the spatial hash between frames
C20_Witness ==
  /\ step.op = "render"
  /\ ~useBruteForce
  /\ step.x = x
  /\ step.updated[1] # x

\* the seven particle arrays have one entry per particle
ArraysMatchCount ==
  /\ DOMAIN x = Particles /\ DOMAIN y = Particles
  /\ DOMAIN vx = Particles /\ DOMAIN vy = Particles
  /\ DOMAIN types = Particles
  /\ DOMAIN fx = Particles /\ DOMAIN fy = Particles

\* C21: update changes neither count, the types, typeCount, the matrix, the
\* world size, interactionRadius nor the mode flag; once initialized the
\* arrays x, y, vx, vy, types, fx and fy all have length count; and count
\* changes through initialize only.
C21_UpdateKeepsShape ==
  /\ [](count > 0 => ArraysMatchCount)
  /\ [][step'.op = "update" =>
          UNCHANGED <<count, types, typeCount, interactionMatrix, width,
                      height, interactionRadius, useBruteForce>>]_vars
  /\ [][count' # count => step'.op = "initialize"]_vars

\* an update in spatial-hash mode that moved a particle and changed the
\* force accumulators and the spatial index
C21_Witness ==
  /\ UpdateRan
  /\ ~useBruteForce
  /\ x # step.x
  /\ \E i \in Particles : fx[i] # 0
  /\ \E c \in DOMAIN spatialHash.grid : spatialHash.grid[c] # <<>>

\* the sum over the processed pairs from the k-th on of what particle p
\* receives on axis a when the first particle of a pair receives sign * v and
\* the second one -sign * v
RECURSIVE Received(_, _, _, _)
Received(p, a, sign, k) ==
  IF k > Len(step.applied) THEN 0
  ELSE (IF step.applied[k].i = p THEN sign * step.applied[k].v[a]
        ELSE IF step.applied[k].j = p THEN -sign * step.applied[k].v[a]
        ELSE 0)
       + Received(p, a, sign, k + 1)

\* C22 as stated: in brute-force mode each processed pair (i, j), i < j, adds
\* magnitude * (nx, ny), (nx, ny) the unit direction from i to j, to particle
\* j's accumulator and the negation to particle i's.
C22_ForceAddedToJ ==
  (UpdateRan /\ useBruteForce) =>
    /\ \A k \in 1..Len(step.applied) :
         /\ step.applied[k].i < step.applied[k].j
         /\ step.applied[k].dj = step.applied[k].v
         /\ step.applied[k].di
              = <<-step.applied[k].v[1], -step.applied[k].v[2]>>
    /\ \A p \in Particles :
         fx[p] = Received(p, 1, -1, 1) /\ fy[p] = Received(p, 2, -1, 1)

\* C22 amended: the vector is added to particle i's accumulator and its
\* negation to particle j's.
C22_ForceAddedToI ==
  (UpdateRan /\ useBruteForce) =>
    /\ \A k \in 1..Len(step.applied) :
         /\ step.applied[k].i < step.applied[k].j
         /\ step.applied[k].di = step.applied[k].v
         /\ step.applied[k].dj
              = <<-step.applied[k].v[1], -step.applied[k].v[2]>>
    /\ \A p \in Particles :
         fx[p] = Received(p, 1, 1, 1) /\ fy[p] = Received(p, 2, 1, 1)

\* a brute-force step in which one particle was the second of a pair and the
\* first of another, with a force on both axes
C22_Witness ==
  /\ UpdateRan /\ useBruteForce
  /\ \E k, l \in 1..Len(step.applied) :
       /\ step.applied[k].j = step.applied[l].i
       /\ step.applied[k].v[1] # 0 /\ step.applied[k].v[2] # 0
       /\ step.applied[l].v[1] # 0

\* how often the cell holds the particle index i
InCell(cell, i) == Cardinality({n \in 1..Len(cell) : cell[n] = i})

Block(sh, col, row) ==
  {r * sh.cols + c :
     c \in {cc \in (col - 1)..(col + 1) : cc >= 0 /\ cc < sh.cols},
     r \in {rr \in (row - 1)..(row + 1) : rr >= 0 /\ rr < sh.rows}}

\* C24: getNearby(x, y) returns exactly the indices stored in the cells of
\* the grid at most one column and one row away from (col, row) =
\* (floor(x / cellSize), floor(y / cellSize)), each stored index once at
\* most, and no index of a cell that is adjacent in the flat array only.
C24_NearbyIsBlock ==
  step.op = "getNearby" =>
    LET col == x[step.a] \div spatialHash.cellSize
        row == y[step.a] \div spatialHash.cellSize
    IN /\ \A n \in 1..Len(step.nearby) : step.nearby[n] \in Particles
       /\ \A i \in Particles :
            InCell(step.nearby, i)
              = IF \E c \in Block(spatialHash, col, row) :
                     InCell(spatialHash.grid[c], i) > 0
                THEN 1 ELSE 0

\* a query from the last column of the first row while the first cell of the
\* second row, its neighbour in the flat array, holds a point
C24_Witness ==
  /\ step.op = "getNearby"
  /\ x[step.a] \div spatialHash.cellSize = spatialHash.cols - 1
  /\ y[step.a] \div spatialHash.cellSize = 0
  /\ Len(spatialHash.grid[spatialHash.cols]) > 0
  /\ Len(step.nearby) = 1

\* the number of particles of type t
OfType(t) == Cardinality({i \in Particles : types[i] = t})

AppRuns == app.event.op # "none"

\* C26: after init and after every UI event the live engine's useBruteForce
\* and interactionRadius are those of the current settings; a particle-count
\* change, which builds a new engine, does not bring back the defaults.
C26_EngineFollowsSettings ==
  AppRuns =>
    /\ app.simulation.useBruteForce = app.settings.useBruteForce
    /\ app.simulation.interactionRadius = app.settings.interactionRadius

\* a particle-count change after the user switched to the spatial hash and
\* moved the radius away from the engine's default
C26_Witness ==
  /\ AppRuns
  /\ app.event.op = "particleCount"
  /\ app.event.fired
  /\ app.settings.useBruteForce = Bool(FALSE)
  /\ app.settings.interactionRadius = Num(MAX_INTERACTION_RADIUS)
  /\ app.simulation.count = app.event.arg

\* m is a size x size matrix
IsSquare(m, size) ==
  /\ DOMAIN m = 0..(size - 1)
  /\ \A i \in DOMAIN m : DOMAIN m[i] = 0..(size - 1)

\* the event met the state it left: nothing changed and no callback ran
NothingHappened ==
  /\ ~app.event.fired
  /\ app.ui = app.event.before.ui
  /\ app.settings = app.event.before.settings
  /\ app.simulation = app.event.before.simulation

\* C27: in the UI controller, after any sequence of add-type and
\* remove-type actions from loaded valid settings, typeCount stays in
\* [2, 8] and the matrix is typeCount x typeCount; an add at 8 types and a
\* remove at 2 types or with an index outside [0, typeCount) change nothing
\* and fire no callback; an add keeps every entry the matrix had.
C27_UiTypeCountBounded ==
  AppRuns =>
    /\ app.ui.typeCount \in MIN_TYPES..MAX_TYPES
    /\ IsSquare(app.ui.interactionMatrix, app.ui.typeCount)
    /\ app.event.op = "addParticleType" =>
         IF app.event.before.ui.typeCount = MAX_TYPES
         THEN NothingHappened
         ELSE /\ app.event.fired
              /\ app.ui.typeCount = app.event.before.ui.typeCount + 1
              /\ \A i, j \in 0..(app.event.before.ui.typeCount - 1) :
                   app.ui.interactionMatrix[i][j]
                     = app.event.before.ui.interactionMatrix[i][j]
    /\ app.event.op = "removeParticleType" =>
         IF \/ app.event.before.ui.typeCount = MIN_TYPES
            \/ app.event.arg \notin 0..(app.event.before.ui.typeCount - 1)
         THEN NothingHappened
         ELSE /\ app.event.fired
              /\ app.ui.typeCount = app.event.before.ui.typeCount - 1

\* an add refused at 8 types, the eighth of which an earlier add created
C27_Witness ==
  /\ AppRuns
  /\ app.event.op = "addParticleType"
  /\ ~app.event.fired
  /\ app.event.before.ui.typeCount = MAX_TYPES
  /\ app.ui.interactionMatrix[MAX_TYPES - 1][MAX_TYPES - 1]
       = RandomCell(RandDen - 1)
  /\ app.ui.interactionMatrix[0][0] # RandomCell(RandDen - 1)

\* C28: removing type k through the UI keeps the interaction of the
\* survivors: for particles p and q whose types before the removal both
\* differ from k, the matrix after it, read at their remapped types, gives
\* what the matrix before it gave at their old types.
C28_RemovalKeepsInteractions ==
  (AppRuns /\ app.event.op = "removeParticleType" /\ app.event.fired) =>
    LET old == app.event.before
        k == app.event.arg
    IN /\ app.simulation.interactionMatrix = app.ui.interactionMatrix
       /\ \A p, q \in DOMAIN old.simulation.types :
            (old.simulation.types[p] # k /\ old.simulation.types[q] # k) =>
              app.ui.interactionMatrix[app.simulation.types[p]]
                                      [app.simulation.types[q]]
                = old.ui.interactionMatrix[old.simulation.types[p]]
                                          [old.simulation.types[q]]

\* a type in the middle removed, with surviving particles below and above
\* it and a particle of the removed type
C28_Witness ==
  /\ AppRuns
  /\ app.event.op = "removeParticleType"
  /\ app.event.fired
  /\ app.event.arg = 1
  /\ app.event.before.ui.typeCount = MAX_TYPES
  /\ \E p, q, d \in DOMAIN app.simulation.types :
       /\ app.event.before.simulation.types[p] = 0
       /\ app.event.before.simulation.types[q] = MAX_TYPES - 1
       /\ app.simulation.types[q] = MAX_TYPES - 2
       /\ app.event.before.simulation.types[d] = 1

\* C29: after init and after every UI event the engine's typeCount is the
\* UI's and the settings', the engine's matrix has typeCount rows and
\* typeCount columns and every particle's type is below typeCount, so each
\* matrix[types[i]][types[j]] of a force step is defined.
C29_TypeCountsAgree ==
  AppRuns =>
    /\ app.simulation.typeCount = app.ui.typeCount
    /\ app.simulation.typeCount = app.settings.typeCount
    /\ IsSquare(app.simulation.interactionMatrix, app.simulation.typeCount)
    /\ \A i \in DOMAIN app.simulation.types :
         app.simulation.types[i] \in 0..(app.simulation.typeCount - 1)

\* a cell edited after a type was added to the seven that a randomization
\* on open or a removal left
C29_Witness ==
  /\ AppRuns
  /\ app.event.op = "cellChange"
  /\ app.event.fired
  /\ app.event.arg = MAX_TYPES - 1
  /\ app.simulation.typeCount = MAX_TYPES
  /\ app.simulation.interactionMatrix[MAX_TYPES - 1][MAX_TYPES - 1]
       = RandomCell(RandDen - 1)
  /\ app.simulation.interactionMatrix[MAX_TYPES - 1][0] = 12

\* the zoom controller has been constructed
ViewRuns == view.event.op # "none"

\* the event just handled left the renderer's pan as it was
PanKept ==
  /\ view.panX = view.event.before.panX
  /\ view.panY = view.event.before.panY

\* what the two versions of C30 share: isPanning is true exactly between a
\* middle-button mousedown on the canvas and the next middle-button
\* mouseup, mousemove changes the pan only while panning, the mouseup of
\* another button does not end the pan, and the zoom stays in [0.25, 4]
PanAndZoomRules ==
  /\ view.isPanning = view.middle
  /\ (view.event.op = "mousemove" /\ ~view.event.before.isPanning) => PanKept
  /\ (view.event.op = "mouseup" /\ view.event.e.button # 1) =>
       view.isPanning = view.event.before.isPanning
  /\ 4 * view.zoom >= ZoomUnit
  /\ view.zoom <= 4 * ZoomUnit

\* a wheel event that met a pan in progress
WheelDuringPan == view.event.op = "wheel" /\ view.event.before.isPanning

\* C30 as stated: with the rules above, a wheel event during a pan changes
\* the zoom and never the pan.
C30_WheelDuringPanKeepsPan ==
  ViewRuns =>
    /\ PanAndZoomRules
    /\ WheelDuringPan =>
         (view.zoom # view.event.before.zoom /\ PanKept)

\* C30: with the rules above, a wheel event during a pan is a zoom toward
\* the cursor and never a scroll: the zoom becomes the old zoom less
\* deltaY * 0.002, brought into [0.25, 4], and the pan stays when the zoom
\* stays or the cursor is at the centre of the canvas.
C30_WheelDuringPanZooms ==
  ViewRuns =>
    /\ PanAndZoomRules
    /\ WheelDuringPan =>
         /\ view.zoom
              = Max(ZoomUnit \div 4,
                    Min(4 * ZoomUnit,
                        view.event.before.zoom - 2 * view.event.e.deltaY))
         /\ (\/ view.zoom = view.event.before.zoom
             \/ /\ 2 * view.event.e.clientX = ViewWidth
                /\ 2 * view.event.e.clientY = ViewHeight) => PanKept

\* a wheel notch during a pan, with the cursor off the centre: the zoom and
\* the pan both change
C30_Witness ==
  /\ ViewRuns
  /\ WheelDuringPan
  /\ view.isPanning
  /\ view.zoom # view.event.before.zoom
  /\ view.panX # view.event.before.panX

====
